---- MODULE Spec2Model ----
(***************************************************************************)
(* A model of the volume manager of orc-horn (longhorn-orc):               *)
(*   - package controller: the controller registry (holdControllers, Get)  *)
(*   - package manager: volumeState, Get/List, Start, Create, Attach,      *)
(*     Detach, Delete, UpdateRecurring, CheckController, Cleanup, the      *)
(*     replica repair task and the manager mutex, ReplicaRemove, the       *)
(*     fan-outs as tasks, UpdateRecurring beside the monitor               *)
(*   - package controller: parseReplica                                    *)
(*   - package api: the actions toVolumeResource offers                    *)
(* Go nil pointers are the records NilVolume / NilController, the nil      *)
(* handle and the nil channel are 0, the empty BadTimestamp is 0.          *)
(***************************************************************************)
EXTENDS Integers, Sequences, FiniteSets, TLC

\* ------------------------------------------------------------------ bounds
\* callers of the registry, and the requests they make in all
NumClients == 2
MaxCalls == 3
\* replica slots of one volume, and the latest BadTimestamp
MaxReplicas == 3
MaxTime == 1
\* the largest NumberOfReplicas asked for, the orchestrator and controller
\* calls that fail and the controllers that crash in all, the repair tasks
\* in flight
MaxN == 2
MaxFailures == 1
MaxRepairs == 2
\* the volumes that get created: the first MaxVolumes names
MaxVolumes == 1
\* the characters of a line of `ls`, and the blanks that pad its columns
MaxLine == 6
MaxPad == 2
\* the replicas of the volume a fan-out runs over
MaxFan == 2
\* the calls of UpdateRecurring, and the health checks of the monitor beside them
MaxUpdates == 2
MaxChecks == 2

NameSeq == <<"v1", "v2">>
Names == {NameSeq[i] : i \in DOMAIN NameSeq}
CreateNames == {NameSeq[i] : i \in {j \in DOMAIN NameSeq : j <= MaxVolumes}}
Addrs == {"a1", "a2"}
Clients == 1..NumClients
ReplicaIds == 1..MaxReplicas

NilHandle == 0
NilChan == 0
NoTimestamp == 0
NilVolume == [nil |-> TRUE]
NilController == [nil |-> TRUE]

VARIABLES
    \* the controller registry: the map and the loop variables of
    \* holdControllers, the controller structs allocated so far
    cs, heap, regPc, r, c,
    \* the callers of the registry: where each is, the request it built,
    \* what its Get returned; how many requests have been made
    pc, req, ret, ncalls,
    \* volumeState applied to one volume record
    vsVol, vsState,
    \* the orchestrator: the persisted volume records (with the observed
    \* Running of their instances), the instances that exist, and the
    \* replicas each controller process is connected to
    vols, insts, ctl,
    \* the manager: its monitors and addingReplicas maps, the repair tasks
    \* (go func of createAndAddReplicaToController) in flight, whether Start
    \* has run since the process started, the faults (failed calls, crashes)
    \* so far
    monitors, addingReplicas, repairs, started, faults,
    \* parseReplica applied to one line of the `ls` output
    prLine, prOut,
    \* one fan-out over the replicas of a volume: which one, the replicas, the
    \* ones the loop has yet to visit, where the function and the task that
    \* closes the channel are, the WaitGroup, the tasks, how often errCh was
    \* closed, the errors collected
    fanOut, fanReps, unvisited, mainPc, joinPc, wg, tasks, errChClosed, errs,
    \* UpdateRecurring beside the monitor of the volume: the task that holds
    \* the manager mutex, where the call and the monitor are, whether the jobs
    \* of the call are valid, the calls made and the CronUpdates received
    muHolder, urPc, urValid, urCalls, moPc, moChecks, cronRecv

regVars == <<cs, heap, regPc, r, c, pc, req, ret, ncalls>>
regCallVars == <<regPc, r, c, pc, req, ret, ncalls>>
vsVars == <<vsVol, vsState>>
orcVars == <<vols, insts, ctl>>
manVars == <<monitors, addingReplicas, repairs, started, faults>>
prVars == <<prLine, prOut>>
foVars == <<fanOut, fanReps, unvisited, mainPc, joinPc, wg, tasks, errChClosed, errs>>
urVars == <<muHolder, urPc, urValid, urCalls, moPc, moChecks, cronRecv>>
vars == <<regVars, vsVars, orcVars, manVars, prVars, foVars, urVars>>
notReg == <<vsVars, orcVars, manVars, prVars, foVars, urVars>>
notVs == <<regVars, orcVars, manVars, prVars, foVars, urVars>>
notMan == <<regCallVars, vsVars, prVars, foVars, urVars>>
notPr == <<regVars, vsVars, orcVars, manVars, foVars, urVars>>
notFo == <<regVars, vsVars, orcVars, manVars, prVars, urVars>>
notUr == <<regVars, vsVars, orcVars, addingReplicas, repairs, started, faults, prVars, foVars>>


\* ------------------------------------------------------- Go maps as functions
MapGet(m, k) == IF k \in DOMAIN m THEN m[k] ELSE NilHandle
MapPut(m, k, v) == [x \in DOMAIN m \cup {k} |-> IF x = k THEN v ELSE m[x]]
MapDelete(m, k) == [x \in DOMAIN m \ {k} |-> m[x]]
Range(m) == {m[x] : x \in DOMAIN m}
EmptyMap == [x \in {} |-> 0]
NoVolume == [NumberOfReplicas |-> 0, Replicas |-> EmptyMap, Controller |-> NilController]

\* no line has been read and none parsed
NoParse == [parsed |-> FALSE]
PrIdle == prLine = <<>> /\ prOut = NoParse

\* no fan-out is running
FoIdle ==
    /\ fanOut = ""
    /\ fanReps = EmptyMap
    /\ unvisited = {}
    /\ mainPc = ""
    /\ joinPc = ""
    /\ wg = 0
    /\ tasks = EmptyMap
    /\ errChClosed = 0
    /\ errs = {}

\* no UpdateRecurring is running and no monitor is looked at
UrIdle ==
    /\ muHolder = ""
    /\ urPc = ""
    /\ urValid = FALSE
    /\ urCalls = 0
    /\ moPc = ""
    /\ moChecks = 0
    /\ cronRecv = 0


\* ====================================================== package controller
\* the requests of the registry: a Get carries a reply channel (the caller's),
\* a Remove carries none
ctrlGet(volume, k) == [volume |-> volume, result |-> k]
ctrlRm(volume) == [volume |-> volume, result |-> NilChan]
NoReq == [volume |-> NilVolume, result |-> NilChan]

\* &controller{...}: an address no allocated struct has
NewHandle(hp) == CHOOSE i \in 1..(Cardinality(DOMAIN hp) + 1) : i \notin DOMAIN hp

NeedNewIgnoringUrl(hp, h, addr) == h = NilHandle
NeedNewAlways(hp, h, addr) == TRUE
\* c == nil || c.url != r.volume.Controller.Address
NeedNew(hp, h, addr) == h = NilHandle \/ hp[h].url # addr

\* one iteration of the loop of holdControllers, up to the reply
HoldControllers(m, hp, rq) ==
    IF rq.result = NilChan
    THEN [cs |-> MapDelete(m, rq.volume.Name), heap |-> hp, c |-> NilHandle]
    ELSE LET h == MapGet(m, rq.volume.Name)
             addr == rq.volume.Controller.Address
         IN  IF NeedNew(hp, h, addr)
             THEN LET n == NewHandle(hp)
                  IN  [cs |-> MapPut(m, rq.volume.Name, n),
                       heap |-> MapPut(hp, n, [name |-> rq.volume.Name, url |-> addr]),
                       c |-> n]
             ELSE [cs |-> m, heap |-> hp, c |-> h]

AfterHandleNoReply(rq) == "recv"
\* where the loop goes after handling: `continue` for a Remove, the reply send
\* for a Get
AfterHandle(rq) == IF rq.result = NilChan THEN "recv" ELSE "reply"

ControllerArgs ==
    {NilController} \cup
    {[nil |-> FALSE, Address |-> a, Running |-> b] : a \in Addrs, b \in BOOLEAN}
VolumeArgs ==
    {NilVolume} \cup
    {[nil |-> FALSE, Name |-> n, Controller |-> ct] : n \in Names, ct \in ControllerArgs}

RegInit ==
    /\ PrIdle
    /\ FoIdle
    /\ UrIdle
    /\ vsVol = NoVolume
    /\ vsState = ""
    /\ cs = EmptyMap
    /\ heap = EmptyMap
    /\ regPc = "recv"
    /\ r = NoReq
    /\ c = NilHandle
    /\ pc = [k \in Clients |-> "idle"]
    /\ req = [k \in Clients |-> NoReq]
    /\ ret = [k \in Clients |-> NilHandle]
    /\ ncalls = 0
    /\ vols = EmptyMap
    /\ insts = {}
    /\ ctl = [n \in Names |-> {}]
    /\ monitors = {}
    /\ addingReplicas = [n \in Names |-> 0]
    /\ repairs = {}
    /\ started = FALSE
    /\ faults = 0

\* Get, up to the send on reqCh; the nil cases return at once
GetCall(k, volume) ==
    /\ pc[k] = "idle"
    /\ ncalls < MaxCalls
    /\ ncalls' = ncalls + 1
    /\ IF volume = NilVolume \/ volume.Controller = NilController
          \/ ~volume.Controller.Running
       THEN /\ ret' = [ret EXCEPT ![k] = NilHandle]
            /\ req' = [req EXCEPT ![k] = NoReq]
            /\ pc' = pc
       ELSE /\ req' = [req EXCEPT ![k] = ctrlGet(volume, k)]
            /\ pc' = [pc EXCEPT ![k] = "send"]
            /\ ret' = ret
    /\ UNCHANGED <<cs, heap, regPc, r, c>>
    /\ UNCHANGED notReg

\* a caller that sends ctrlRm(volume) on reqCh, for a volume that has lost its
\* controller
RemoveCall(k, volume) ==
    /\ pc[k] = "idle"
    /\ ncalls < MaxCalls
    /\ volume # NilVolume /\ volume.Controller = NilController
    /\ ncalls' = ncalls + 1
    /\ req' = [req EXCEPT ![k] = ctrlRm(volume)]
    /\ pc' = [pc EXCEPT ![k] = "send"]
    /\ UNCHANGED <<cs, heap, regPc, r, c, ret>>
    /\ UNCHANGED notReg

\* `for r := range reqCh`: reqCh is unbuffered, the send and the receive are
\* one step; the sender of a Get goes on to wait on req.result
Recv(k) ==
    /\ regPc = "recv"
    /\ pc[k] = "send"
    /\ r' = req[k]
    /\ regPc' = "handle"
    /\ pc' = [pc EXCEPT ![k] = IF req[k].result = NilChan THEN "idle" ELSE "wait"]
    /\ req' = [req EXCEPT ![k] = IF req[k].result = NilChan THEN NoReq ELSE @]
    /\ UNCHANGED <<cs, heap, c, ret, ncalls>>
    /\ UNCHANGED notReg

\* r and c are dead once the loop is back at its head, req once Get has returned
Handle ==
    /\ regPc = "handle"
    /\ LET out == HoldControllers(cs, heap, r)
       IN  /\ cs' = out.cs
           /\ heap' = out.heap
           /\ c' = IF AfterHandle(r) = "recv" THEN NilHandle ELSE out.c
    /\ regPc' = AfterHandle(r)
    /\ r' = IF AfterHandle(r) = "recv" THEN NoReq ELSE r
    /\ UNCHANGED <<pc, req, ret, ncalls>>
    /\ UNCHANGED notReg

\* `r.result <- c` meets `return <-req.result`
Reply ==
    /\ regPc = "reply"
    /\ r.result # NilChan
    /\ pc[r.result] = "wait"
    /\ ret' = [ret EXCEPT ![r.result] = c]
    /\ pc' = [pc EXCEPT ![r.result] = "idle"]
    /\ req' = [req EXCEPT ![r.result] = NoReq]
    /\ regPc' = "recv"
    /\ r' = NoReq
    /\ c' = NilHandle
    /\ UNCHANGED <<cs, heap, ncalls>>
    /\ UNCHANGED notReg

RegNext ==
    \/ \E k \in Clients, volume \in VolumeArgs : GetCall(k, volume)
    \/ \E k \in Clients, volume \in VolumeArgs : RemoveCall(k, volume)
    \/ \E k \in Clients : Recv(k)
    \/ Handle
    \/ Reply

\* ========================================================= package manager
RECURSIVE CountGood(_, _)
\* the loop of volumeState over volume.Replicas
CountGood(replicas, todo) ==
    IF todo = {} THEN 0
    ELSE LET k == CHOOSE x \in todo : TRUE
         IN  (IF replicas[k].BadTimestamp = NoTimestamp THEN 1 ELSE 0)
             + CountGood(replicas, todo \ {k})

volumeStateControllerFirst(volume) ==
    LET goodReplicaCount == CountGood(volume.Replicas, DOMAIN volume.Replicas)
    IN  IF volume.Controller = NilController THEN "detached"
        ELSE IF goodReplicaCount = 0 THEN "faulted"
        ELSE IF goodReplicaCount = volume.NumberOfReplicas THEN "healthy"
        ELSE "degraded"

volumeState(volume) ==
    LET goodReplicaCount == CountGood(volume.Replicas, DOMAIN volume.Replicas)
    IN  IF goodReplicaCount = 0 THEN "faulted"
        ELSE IF volume.Controller = NilController THEN "detached"
        ELSE IF goodReplicaCount = volume.NumberOfReplicas THEN "healthy"
        ELSE "degraded"

\* package api, toVolumeResource: the actions of the resource, by the State
toVolumeResourceActions(state) ==
    CASE state = "detached" -> {"attach", "recurringUpdate", "replicaRemove"}
      [] state \in {"healthy", "degraded"} ->
            {"detach", "snapshotPurge", "snapshotCreate", "snapshotList", "snapshotGet",
             "snapshotDelete", "snapshotRevert", "snapshotBackup", "recurringUpdate",
             "bgTaskQueue", "replicaRemove"}
      [] state = "created" -> {"recurringUpdate"}
      [] OTHER -> {}

\* ---- the orchestrator, the controller process and the monitor factory are
\* behind interfaces; what a call does to them is taken from spec.md 4.1, 4.3
\* and 6 and from docker_test.go
CurrentHostID == "h1"
ControllerInst == 0
VolumeStateArgs == {"created"}
Modes == {"RW", "WO", "ERR"}

\* a call on the orchestrator or on the controller process: its name, the
\* volume and the instance (a replica id, ControllerInst for the controller
\* and for calls on no instance)
D(call, n, i) == [call |-> call, vol |-> n, inst |-> i]

ControllerAlive(s, n) ==
    /\ <<n, ControllerInst>> \in s.insts
    /\ n \in DOMAIN s.vols
    /\ s.vols[n].Controller # NilController
    /\ s.vols[n].Controller.Running

\* what a call needs in order to succeed at all
Possible(s, d) ==
    CASE d.call \in {"ls", "add", "rm", "info", "Restore"} -> ControllerAlive(s, d.vol)
      [] d.call = "StartInstance" -> <<d.vol, d.inst>> \in s.insts
      [] d.call \in {"CreateReplica", "MarkBadReplica"} -> d.vol \in DOMAIN s.vols
      [] d.call = "CreateController" ->
            d.vol \in DOMAIN s.vols /\ <<d.vol, ControllerInst>> \notin s.insts
      [] OTHER -> TRUE

\* the call d succeeds: it is not one of the calls f that fail in this operation
Ok(s, f, d) == d \notin f /\ Possible(s, d)

\* the log of an operation: its calls in order, whether each succeeded, and
\* whether the task held the manager mutex when it made it
Logged(s, f, d) ==
    [s EXCEPT !.log = Append(@, [call |-> d.call, vol |-> d.vol, inst |-> d.inst,
                                  ok |-> Ok(s, f, d), locked |-> s.mu])]

\* man.Lock() and the deferred man.Unlock()
Lock(s) == [s EXCEPT !.mu = TRUE]
Unlock(s) == [s EXCEPT !.mu = FALSE]

OrcCreateVolume(s, volume) ==
    [s EXCEPT !.vols = MapPut(@, volume.Name,
        [nil |-> FALSE, Name |-> volume.Name,
         NumberOfReplicas |-> volume.NumberOfReplicas,
         State |-> volume.State, Endpoint |-> "",
         Replicas |-> EmptyMap, Controller |-> NilController])]

OrcDeleteVolume(s, n) == [s EXCEPT !.vols = MapDelete(@, n)]

\* the replica names of a volume not in use: GetReplicaName draws a random one
FreeSlots(s, n) ==
    {i \in ReplicaIds :
        /\ <<n, i>> \notin s.insts
        /\ n \in DOMAIN s.vols => i \notin DOMAIN s.vols[n].Replicas}
NewReplicaId(s, n) == CHOOSE i \in FreeSlots(s, n) : \A j \in FreeSlots(s, n) : i <= j

\* a replica is created stopped and good, on the current host
OrcCreateReplica(s, n, i) ==
    [s EXCEPT !.insts = @ \cup {<<n, i>>},
              !.vols[n].Replicas =
                  MapPut(@, i, [BadTimestamp |-> NoTimestamp, Running |-> FALSE,
                                HostID |-> CurrentHostID])]

OrcSetRunning(s, n, i, b) ==
    IF n \notin DOMAIN s.vols \/ <<n, i>> \notin s.insts THEN s
    ELSE IF i = ControllerInst
    THEN IF s.vols[n].Controller = NilController THEN s
         ELSE [s EXCEPT !.vols[n].Controller.Running = b]
    ELSE IF i \in DOMAIN s.vols[n].Replicas
         THEN [s EXCEPT !.vols[n].Replicas[i].Running = b]
         ELSE s
OrcStartInstance(s, n, i) == OrcSetRunning(s, n, i, TRUE)
OrcStopInstanceLeavesRunning(s, n, i) == s
\* Stop on a stopped instance and Remove on an absent one change nothing
OrcStopInstance(s, n, i) == OrcSetRunning(s, n, i, FALSE)

OrcRemoveInstance(s, n, i) ==
    LET s1 == [s EXCEPT !.insts = @ \ {<<n, i>>}]
    IN  IF n \notin DOMAIN s.vols THEN s1
        ELSE IF i = ControllerInst
        THEN [s1 EXCEPT !.vols[n].Controller = NilController, !.ctl[n] = {}]
        ELSE [s1 EXCEPT !.vols[n].Replicas = MapDelete(@, i)]

\* a controller is created running on the current host, connected to replicas
OrcCreateController(s, n, replicas, addr) ==
    [s EXCEPT !.insts = @ \cup {<<n, ControllerInst>>},
              !.vols[n].Controller =
                  [nil |-> FALSE, Running |-> TRUE, HostID |-> CurrentHostID,
                   Address |-> addr],
              !.ctl[n] = replicas]

OrcMarkBadReplica(s, n, i, t) ==
    IF n \in DOMAIN s.vols /\ i \in DOMAIN s.vols[n].Replicas
    THEN [s EXCEPT !.vols[n].Replicas[i].BadTimestamp = t]
    ELSE s

\* the InstanceInfo the orchestrator has of instance i of volume n (what
\* createReplica, createController, startInstance and stopInstance return, and
\* removeInstance before it removes it): the ID and Name are the instance's
NilInstance == [nil |-> TRUE]
InstanceInfo(s, n, i) ==
    IF n \notin DOMAIN s.vols \/ <<n, i>> \notin s.insts THEN NilInstance
    ELSE IF i = ControllerInst
    THEN IF s.vols[n].Controller = NilController THEN NilInstance
         ELSE [nil |-> FALSE, ID |-> <<n, i>>, Name |-> <<n, i>>,
               HostID |-> s.vols[n].Controller.HostID,
               Running |-> s.vols[n].Controller.Running]
    ELSE IF i \notin DOMAIN s.vols[n].Replicas THEN NilInstance
    ELSE [nil |-> FALSE, ID |-> <<n, i>>, Name |-> <<n, i>>,
          HostID |-> s.vols[n].Replicas[i].HostID,
          Running |-> s.vols[n].Replicas[i].Running]

\* ---- the manager
\* An operation is an operator from the state s it starts in and the calls f
\* that fail during it to what it returns and the state it leaves.
Res(s, err, volume) == [s |-> s, err |-> err, vol |-> volume]

\* man.getController is controller.Get: the registry task serves one request
\* at a time, so a Get is one step of it; a struct nobody refers to is freed
getController(s, volume) ==
    IF volume = NilVolume \/ volume.Controller = NilController
       \/ ~volume.Controller.Running
    THEN [s |-> s, h |-> NilHandle]
    ELSE LET Served(out) ==
                 [s |-> [s EXCEPT !.cs = out.cs,
                                  !.heap = [h \in Range(out.cs) |-> out.heap[h]]],
                  h |-> out.c]
         IN  Served(HoldControllers(s.cs, s.heap, ctrlGet(volume, 1)))

completeVolumeStateStored(s, f, vol) ==
    LET running == vol.Controller # NilController /\ vol.Controller.Running
        d == D("info", vol.Name, ControllerInst)
    IN  Res(IF running THEN Logged(getController(s, vol).s, f, d) ELSE s, "",
            [vol EXCEPT !.Endpoint = IF running /\ Ok(s, f, d) THEN "dev" ELSE ""])

\* Endpoint() is the `info` command; its failure gives the empty string
completeVolumeState(s, f, vol) ==
    LET running == vol.Controller # NilController /\ vol.Controller.Running
        d == D("info", vol.Name, ControllerInst)
    IN  Res(IF running THEN Logged(getController(s, vol).s, f, d) ELSE s, "",
            [vol EXCEPT !.State = volumeState(vol),
                        !.Endpoint = IF running /\ Ok(s, f, d) THEN "dev" ELSE ""])

Get(s, f, name) ==
    LET d == D("GetVolume", name, ControllerInst)
    IN  IF ~Ok(s, f, d) THEN Res(Logged(s, f, d), "error", NilVolume)
        ELSE IF name \notin DOMAIN s.vols THEN Res(Logged(s, f, d), "", NilVolume)
        ELSE completeVolumeState(Logged(s, f, d), f, s.vols[name])

RECURSIVE CompleteAll(_, _, _, _)
CompleteAll(s, f, todo, acc) ==
    IF todo = {} THEN [s |-> s, err |-> "", vols |-> acc]
    ELSE LET n == CHOOSE x \in todo : TRUE
             Completed(cv) == CompleteAll(cv.s, f, todo \ {n}, MapPut(acc, n, cv.vol))
         IN  Completed(completeVolumeState(s, f, s.vols[n]))

List(s, f) ==
    LET d == D("ListVolumes", "", ControllerInst)
    IN  IF ~Ok(s, f, d) THEN [s |-> Logged(s, f, d), err |-> "error", vols |-> EmptyMap]
        ELSE CompleteAll(Logged(s, f, d), f, DOMAIN s.vols, EmptyMap)

NewMonitor(s, volume) ==
    [s EXCEPT !.monitors = @ \cup {volume.Name},
              !.log = Append(@, [call |-> "monitor", vol |-> volume.Name,
                                 inst |-> ControllerInst, ok |-> TRUE,
                                 locked |-> s.mu])]

startMonitoringAlways(s, volume) == Unlock(NewMonitor(Lock(s), volume))

startMonitoring(s, volume) ==
    Unlock(IF volume.Name \notin s.monitors THEN NewMonitor(Lock(s), volume)
           ELSE Lock(s))

\* mon.Close() and the delete from the map
CloseMonitor(s, volume) ==
    [s EXCEPT !.monitors = @ \ {volume.Name},
              !.log = Append(@, [call |-> "Close", vol |-> volume.Name,
                                 inst |-> ControllerInst, ok |-> TRUE,
                                 locked |-> s.mu])]

stopMonitoringNever(s, volume) == s

stopMonitoringNoUnlock(s, volume) ==
    IF volume.Name \in s.monitors THEN CloseMonitor(Lock(s), volume) ELSE Lock(s)

stopMonitoring(s, volume) ==
    Unlock(IF volume.Name \in s.monitors THEN CloseMonitor(Lock(s), volume)
           ELSE Lock(s))

\* the send on the monitor's cron channel, made with the mutex held
updateCron(s, volume) ==
    Unlock(IF volume.Name \notin s.monitors THEN Lock(s)
           ELSE [Lock(s) EXCEPT !.log = Append(@, [call |-> "cron", vol |-> volume.Name,
                                                    inst |-> ControllerInst, ok |-> TRUE,
                                                    locked |-> TRUE])])

RECURSIVE StartMonitors(_, _, _)
StartMonitors(s, vs, todo) ==
    IF todo = {} THEN s
    ELSE LET n == CHOOSE x \in todo : TRUE
             v == vs[n]
         IN  StartMonitors(
                 IF v.Controller # NilController /\ v.Controller.Running
                    /\ v.Controller.HostID = CurrentHostID
                 THEN startMonitoring(s, v) ELSE s,
                 vs, todo \ {n})

Start(s, f) ==
    LET Listed(l) ==
            IF l.err # "" THEN Res(l.s, l.err, NilVolume)
            ELSE Res(StartMonitors(l.s, l.vols, DOMAIN l.vols), "", NilVolume)
    IN  Listed(List(s, f))

\* a fan-out of one call over the instances ids: every call is made, the
\* failed ones are collected
RECURSIVE FanOut(_, _, _, _, _)
FanOut(s, f, call, n, ids) ==
    IF ids = {} THEN [s |-> s, errs |-> {}]
    ELSE LET i == CHOOSE x \in ids : \A y \in ids : x <= y
             d == D(call, n, i)
             Others(rest) ==
                 [s |-> rest.s,
                  errs |-> rest.errs \cup (IF Ok(s, f, d) THEN {} ELSE {i})]
         IN  Others(FanOut(
                 IF ~Ok(s, f, d) THEN Logged(s, f, d)
                 ELSE IF call = "StopInstance" THEN OrcStopInstance(Logged(s, f, d), n, i)
                 ELSE IF call = "StartInstance" THEN OrcStartInstance(Logged(s, f, d), n, i)
                 ELSE OrcRemoveInstance(Logged(s, f, d), n, i),
                 f, call, n, ids \ {i}))

doDetachIgnoringStops(s, f, volume) ==
    LET n == volume.Name
        running == volume.Controller # NilController /\ volume.Controller.Running
        dStop == D("StopInstance", n, ControllerInst)
        dRm == D("RemoveInstance", n, ControllerInst)
        ReplicasStopped(st) ==
            IF volume.Controller = NilController THEN Res(st.s, "", volume)
            ELSE IF ~Ok(st.s, f, dRm) THEN Res(Logged(st.s, f, dRm), "error", volume)
            ELSE Res(OrcRemoveInstance(Logged(st.s, f, dRm), n, ControllerInst),
                     IF st.errs # {} THEN "error" ELSE "",
                     [volume EXCEPT !.Controller = NilController])
        MonitorStopped(s1) ==
            IF running /\ ~Ok(s1, f, dStop) THEN Res(Logged(s1, f, dStop), "error", volume)
            ELSE ReplicasStopped(FanOut(
                     IF running THEN OrcStopInstance(Logged(s1, f, dStop), n, ControllerInst)
                     ELSE s1,
                     f, "StopInstance", n, DOMAIN volume.Replicas))
    IN  MonitorStopped(stopMonitoring(s, volume))

doDetach(s, f, volume) ==
    LET n == volume.Name
        running == volume.Controller # NilController /\ volume.Controller.Running
        dStop == D("StopInstance", n, ControllerInst)
        dRm == D("RemoveInstance", n, ControllerInst)
        ReplicasStopped(st) ==
            IF st.errs # {} THEN Res(st.s, "error", volume)
            ELSE IF volume.Controller = NilController THEN Res(st.s, "", volume)
            ELSE IF ~Ok(st.s, f, dRm) THEN Res(Logged(st.s, f, dRm), "error", volume)
            ELSE Res(OrcRemoveInstance(Logged(st.s, f, dRm), n, ControllerInst), "",
                     [volume EXCEPT !.Controller = NilController])
        MonitorStopped(s1) ==
            IF running /\ ~Ok(s1, f, dStop) THEN Res(Logged(s1, f, dStop), "error", volume)
            ELSE ReplicasStopped(FanOut(
                     IF running THEN OrcStopInstance(Logged(s1, f, dStop), n, ControllerInst)
                     ELSE s1,
                     f, "StopInstance", n, DOMAIN volume.Replicas))
    IN  MonitorStopped(stopMonitoring(s, volume))

DetachMissingIsError(s, f, name) ==
    LET DetachGot(g) ==
            IF g.err # "" THEN g
            ELSE IF g.vol = NilVolume THEN Res(g.s, "error", NilVolume)
            ELSE doDetach(g.s, f, g.vol)
    IN  DetachGot(Get(s, f, name))

Detach(s, f, name) ==
    LET DetachGot(g) ==
            IF g.err # "" THEN g
            ELSE IF g.vol = NilVolume THEN Res(g.s, "", NilVolume)
            ELSE doDetach(g.s, f, g.vol)
    IN  DetachGot(Get(s, f, name))

\* the replicas of volume with a BadTimestamp; every BadTimestamp of the model
\* parses
BadReplicas(volume) ==
    {k \in DOMAIN volume.Replicas : volume.Replicas[k].BadTimestamp # NoTimestamp}
RunningReplicas(volume) ==
    {k \in DOMAIN volume.Replicas : volume.Replicas[k].Running}

\* the loop over volume.Replicas dereferences recentBadReplica, which is nil, at
\* the first replica with a BadTimestamp: a panic.  Go ranges over the map in
\* any order, and the stop tasks started by then may or may not have run:
\* o.pick is the set of replicas whose stop ran, at most one of them bad
\* (the one the loop panicked at).
AttachPicks(volume) ==
    IF BadReplicas(volume) = {} THEN {RunningReplicas(volume)}
    ELSE {T \in SUBSET RunningReplicas(volume) :
              Cardinality(T \cap BadReplicas(volume)) <= 1}

doAttachRestNoEmptyTest(s, f, volume, o) ==
    LET n == volume.Name
        replicas == DOMAIN volume.Replicas \ BadReplicas(volume)
        dCc == D("CreateController", n, ControllerInst)
        Created(s2) ==
            Res(startMonitoring(s2, [volume EXCEPT !.Controller = s2.vols[n].Controller]),
                "", [volume EXCEPT !.Controller = s2.vols[n].Controller])
        Started(starts) ==
            IF starts.errs # {} THEN Res(starts.s, "error", volume)
            ELSE IF ~Ok(starts.s, f, dCc) THEN Res(Logged(starts.s, f, dCc), "error", volume)
            ELSE Created(OrcCreateController(Logged(starts.s, f, dCc), n, replicas, o.addr))
        Stopped(stops) ==
            IF stops.errs # {} THEN Res(stops.s, "error", volume)
            ELSE Started(FanOut(stops.s, f, "StartInstance", n, replicas))
    IN  Stopped(FanOut(s, f, "StopInstance", n, RunningReplicas(volume)))

\* doAttach from the loop over volume.Replicas on
doAttachRest(s, f, volume, o) ==
    LET n == volume.Name
        replicas == DOMAIN volume.Replicas \ BadReplicas(volume)
        dCc == D("CreateController", n, ControllerInst)
        Created(s2) ==
            Res(startMonitoring(s2, [volume EXCEPT !.Controller = s2.vols[n].Controller]),
                "", [volume EXCEPT !.Controller = s2.vols[n].Controller])
        Started(starts) ==
            IF starts.errs # {} THEN Res(starts.s, "error", volume)
            ELSE IF ~Ok(starts.s, f, dCc) THEN Res(Logged(starts.s, f, dCc), "error", volume)
            ELSE Created(OrcCreateController(Logged(starts.s, f, dCc), n, replicas, o.addr))
        Stopped(stops) ==
            IF stops.errs # {} THEN Res(stops.s, "error", volume)
            ELSE IF replicas = {} THEN Res(stops.s, "error", volume)
            ELSE Started(FanOut(stops.s, f, "StartInstance", n, replicas))
    IN  Stopped(FanOut(s, f, "StopInstance", n, RunningReplicas(volume)))

\* doAttach after the Detach of a controller found elsewhere or not running
doAttachLoop(s, f, volume, o) ==
    IF BadReplicas(volume) # {}
    THEN Res(FanOut(s, f, "StopInstance", volume.Name, o.pick).s, "panic", volume)
    ELSE doAttachRest(s, f, volume, o)

\* Attach passes what Get returned, nil included, and doAttach reads
\* volume.Controller at once
doAttach(s, f, volume, o) ==
    IF volume = NilVolume THEN Res(s, "panic", volume)
    ELSE IF /\ volume.Controller # NilController
            /\ volume.Controller.Running
            /\ volume.Controller.HostID = CurrentHostID
    THEN Res(startMonitoring(s, volume), "", volume)
    ELSE LET Detached(dt) ==
                 IF dt.err # "" THEN Res(dt.s, "error", volume)
                 ELSE doAttachLoop(dt.s, f, volume, o)
         IN  Detached(IF volume.Controller # NilController
                      THEN Detach(s, f, volume.Name)
                      ELSE Res(s, "", volume))

Attach(s, f, name, o) ==
    LET AttachGot(g) == IF g.err # "" THEN g ELSE doAttach(g.s, f, g.vol, o)
    IN  AttachGot(Get(s, f, name))

\* the loop over volume.Replicas returns at the first RemoveInstance that
\* fails; o.pick is the set of replicas it removed before that one
DeletePicks(f) ==
    IF \E d \in f : d.call = "RemoveInstance" /\ d.inst # ControllerInst
    THEN SUBSET ReplicaIds ELSE {ReplicaIds}

RemoveReplicasNone(s, f, volume, o) == [s |-> s, err |-> ""]

RemoveReplicas(s, f, volume, o) ==
    LET n == volume.Name
        failing == {k \in DOMAIN volume.Replicas : ~Ok(s, f, D("RemoveInstance", n, k))}
        Removed(done) ==
            IF failing = {} THEN [s |-> done.s, err |-> ""]
            ELSE [s |-> Logged(done.s, f,
                           D("RemoveInstance", n, CHOOSE k \in failing : TRUE)),
                  err |-> "error"]
    IN  Removed(FanOut(s, f, "RemoveInstance", n,
                       (o.pick \cap DOMAIN volume.Replicas) \ failing))

Delete(s, f, name, o) ==
    LET dDel == D("DeleteVolume", name, ControllerInst)
        ReplicasRemoved(rm) ==
            IF rm.err # "" THEN Res(rm.s, "error", NilVolume)
            ELSE IF ~Ok(rm.s, f, dDel) THEN Res(Logged(rm.s, f, dDel), "error", NilVolume)
            ELSE Res(OrcDeleteVolume(Logged(rm.s, f, dDel), name), "", NilVolume)
        DeleteDetached(dt, volume) ==
            IF dt.err # "" THEN Res(dt.s, "error", NilVolume)
            ELSE ReplicasRemoved(RemoveReplicas(dt.s, f, volume, o))
        DeleteGot(g) ==
            IF g.err # "" THEN g
            ELSE IF g.vol = NilVolume THEN Res(g.s, "", NilVolume)
            ELSE DeleteDetached(doDetach(g.s, f, g.vol), g.vol)
    IN  DeleteGot(Get(s, f, name))

RECURSIVE CreateReplicas(_, _, _, _)
CreateReplicas(s, f, n, k) ==
    IF k = 0 THEN [s |-> s, err |-> ""]
    ELSE IF FreeSlots(s, n) = {} THEN [s |-> [s EXCEPT !.blocked = TRUE], err |-> "error"]
    ELSE LET i == NewReplicaId(s, n)
             d == D("CreateReplica", n, i)
         IN  IF ~Ok(s, f, d) THEN [s |-> Logged(s, f, d), err |-> "error"]
             ELSE CreateReplicas(OrcCreateReplica(Logged(s, f, d), n, i), f, n, k - 1)

doCreateOneReplica(s, f, volume) ==
    LET d == D("CreateVolume", volume.Name, ControllerInst)
        ReplicasCreated(cr) ==
            IF cr.err # "" THEN Res(cr.s, "error", NilVolume)
            ELSE Get(cr.s, f, volume.Name)
    IN  IF ~Ok(s, f, d) THEN Res(Logged(s, f, d), "error", NilVolume)
        ELSE ReplicasCreated(CreateReplicas(OrcCreateVolume(Logged(s, f, d), volume),
                                            f, volume.Name, 1))

doCreate(s, f, volume) ==
    LET d == D("CreateVolume", volume.Name, ControllerInst)
        ReplicasCreated(cr) ==
            IF cr.err # "" THEN Res(cr.s, "error", NilVolume)
            ELSE Get(cr.s, f, volume.Name)
    IN  IF ~Ok(s, f, d) THEN Res(Logged(s, f, d), "error", NilVolume)
        ELSE ReplicasCreated(CreateReplicas(OrcCreateVolume(Logged(s, f, d), volume),
                                            f, volume.Name, volume.NumberOfReplicas))

cleanupFailedCreate(s, f, vol, o) == Delete(s, f, vol.Name, o).s

\* the three exits with `defer man.cleanupFailedCreate(vol)` are the results
\* with cleanup set
createFromBackup(s, f, volume, backup, o) ==
    LET dRs == D("Restore", volume.Name, ControllerInst)
        Exit(s9, err, vol, cleanup) ==
            [s |-> s9, err |-> err, vol |-> vol, cleanup |-> cleanup]
        Restored(dt, vol) ==
            IF dt.err # "" THEN Exit(dt.s, "error", vol, TRUE)
            ELSE Exit(dt.s, "", dt.vol, FALSE)
        Connected(s1, vol) ==
            IF ~Ok(s1, f, dRs) THEN Exit(Logged(s1, f, dRs), "error", vol, TRUE)
            ELSE Restored(doDetach(Logged(s1, f, dRs), f, vol), vol)
        Attached(at, vol) ==
            IF at.err = "panic" THEN Exit(at.s, "panic", vol, FALSE)
            ELSE IF at.err # "" THEN Exit(at.s, "error", vol, TRUE)
            ELSE Connected(getController(at.s, at.vol).s, at.vol)
        Created(cr) ==
            IF cr.err # "" THEN Exit(cr.s, cr.err, NilVolume, FALSE)
            ELSE Attached(doAttach(cr.s, f, cr.vol, o), cr.vol)
        Deferred(x) ==
            IF x.cleanup
            THEN Res(cleanupFailedCreate(x.s, f, x.vol, o), "error", NilVolume)
            ELSE Res(x.s, x.err, IF x.err = "" THEN x.vol ELSE NilVolume)
    IN  IF ~backup.sizeParses THEN Res(s, "error", NilVolume)
        ELSE Deferred(Created(doCreate(s, f, volume)))

NilSettings == [nil |-> TRUE]
SettingsArgs ==
    {NilSettings} \cup [nil : {FALSE}, EngineImage : {"", "e"}, BackupTarget : {"", "t"}]
BackupArgs == [sizeParses : BOOLEAN]
CreateArgs ==
    [Name : CreateNames, NumberOfReplicas : 1..MaxN, State : VolumeStateArgs,
     EngineImage : {"", "e"}, FromBackup : {"", "b"}]

Create(s, f, volume, settings, backup, o) ==
    LET dSet == D("GetSettings", "", ControllerInst)
        dBk == D("GetBackup", volume.Name, ControllerInst)
        Validated(s1) ==
            IF ~Ok(s1, f, dSet) \/ settings = NilSettings
            THEN Res(Logged(s1, f, dSet), "error", NilVolume)
            ELSE IF volume.EngineImage = "" /\ settings.EngineImage = ""
            THEN Res(Logged(s1, f, dSet), "error", NilVolume)
            ELSE IF volume.FromBackup = "" THEN doCreate(Logged(s1, f, dSet), f, volume)
            ELSE IF settings.BackupTarget = ""
            THEN Res(Logged(s1, f, dSet), "error", NilVolume)
            ELSE IF ~Ok(s1, f, dBk)
            THEN Res(Logged(Logged(s1, f, dSet), f, dBk), "error", NilVolume)
            ELSE createFromBackup(Logged(Logged(s1, f, dSet), f, dBk), f, volume, backup, o)
        CreateGot(g) ==
            IF g.err # "" THEN g
            ELSE IF g.vol # NilVolume THEN Res(g.s, "error", NilVolume)
            ELSE Validated(g.s)
    IN  CreateGot(Get(s, f, volume.Name))

\* the task a monitor starts to add the new replica to the controller
RepairTask(n, i, at) == [vol |-> n, inst |-> i, pc |-> at]

createAndAddReplicaToController(s, f, n) ==
    IF FreeSlots(s, n) = {} \/ Cardinality(s.repairs) >= MaxRepairs
    THEN Res([s EXCEPT !.blocked = TRUE], "error", NilVolume)
    ELSE
    LET i == NewReplicaId(s, n)
        dCr == D("CreateReplica", n, i)
        dSt == D("StartInstance", n, i)
        ReplicaCreated(s2) ==
            IF ~Ok(s2, f, dSt) THEN Res(Logged(s2, f, dSt), "error", NilVolume)
            ELSE Res([OrcStartInstance(Logged(s2, f, dSt), n, i)
                          EXCEPT !.repairs = @ \cup {RepairTask(n, i, "go")}],
                     "", NilVolume)
    IN  IF ~Ok(s, f, dCr) THEN Res(Logged(s, f, dCr), "error", NilVolume)
        ELSE ReplicaCreated(OrcCreateReplica(Logged(s, f, dCr), n, i))

addingReplicasCountDown(s, n, add) == [s EXCEPT !.addingReplicas[n] = @ - 1]

addingReplicasCount(s, n, add) == Unlock([Lock(s) EXCEPT !.addingReplicas[n] = @ + add])

\* UpdateRecurring reads and writes the record (the jobs are not part of the
\* model's record), validates the jobs and tells the monitor; it uses the
\* record GetVolume returned without a nil test
UpdateRecurring(s, f, name, valid) ==
    LET dGet == D("GetVolume", name, ControllerInst)
        dUpd == D("UpdateVolume", name, ControllerInst)
    IN  IF ~Ok(s, f, dGet) THEN Res(Logged(s, f, dGet), "error", NilVolume)
        ELSE IF name \notin DOMAIN s.vols THEN Res(Logged(s, f, dGet), "panic", NilVolume)
        ELSE IF ~Ok(s, f, dUpd)
        THEN Res(Logged(Logged(s, f, dGet), f, dUpd), "error", NilVolume)
        ELSE IF ~valid THEN Res(Logged(Logged(s, f, dGet), f, dUpd), "error", NilVolume)
        ELSE Res(updateCron(Logged(Logged(s, f, dGet), f, dUpd), s.vols[name]),
                 "", NilVolume)

\* volume.Replicas is read with no test of the nil volume that Get returns
\* for a missing one; the stop of a running replica is best effort
ReplicaRemove(s, f, volumeName, replicaName) ==
    LET dStop == D("StopInstance", volumeName, replicaName)
        dRm == D("RemoveInstance", volumeName, replicaName)
        Removed(s1) ==
            IF ~Ok(s1, f, dRm) THEN Res(Logged(s1, f, dRm), "error", NilVolume)
            ELSE Res(OrcRemoveInstance(Logged(s1, f, dRm), volumeName, replicaName),
                     "", NilVolume)
        Stopped(s1) ==
            IF Ok(s1, f, dStop)
            THEN OrcStopInstance(Logged(s1, f, dStop), volumeName, replicaName)
            ELSE Logged(s1, f, dStop)
        Found(gt) ==
            IF gt.err # "" THEN Res(gt.s, "error", NilVolume)
            ELSE IF gt.vol = NilVolume THEN Res(gt.s, "panic", NilVolume)
            ELSE IF replicaName \notin DOMAIN gt.vol.Replicas
            THEN Res(gt.s, "error", NilVolume)
            ELSE IF gt.vol.Replicas[replicaName].Running THEN Removed(Stopped(gt.s))
            ELSE Removed(gt.s)
    IN  Found(Get(s, f, volumeName))

RECURSIVE DropBadUntilFailure(_, _, _, _, _)
DropBadUntilFailure(s, f, n, ids, t) ==
    IF ids = {} THEN [s |-> s, errs |-> {}]
    ELSE LET i == CHOOSE x \in ids : \A y \in ids : x <= y
             dRm == D("rm", n, i)
             dMk == D("MarkBadReplica", n, i)
         IN  IF ~Ok(s, f, dRm) THEN [s |-> Logged(s, f, dRm), errs |-> {i}]
             ELSE IF ~Ok(s, f, dMk)
             THEN [s |-> Logged([Logged(s, f, dRm) EXCEPT !.ctl[n] = @ \ {i}], f, dMk),
                   errs |-> {i}]
             ELSE DropBadUntilFailure(
                      OrcMarkBadReplica(
                          Logged([Logged(s, f, dRm) EXCEPT !.ctl[n] = @ \ {i}], f, dMk),
                          n, i, t),
                      f, n, ids \ {i}, t)

\* the two tasks per ERR replica: RemoveReplica on the controller and
\* MarkBadReplica on the orchestrator, both always made
RECURSIVE DropBad(_, _, _, _, _)
DropBad(s, f, n, ids, t) ==
    IF ids = {} THEN [s |-> s, errs |-> {}]
    ELSE LET i == CHOOSE x \in ids : \A y \in ids : x <= y
             dRm == D("rm", n, i)
             dMk == D("MarkBadReplica", n, i)
             Marked(s4, failed) ==
                 LET OtherBad(rest) ==
                         [s |-> rest.s,
                          errs |-> rest.errs \cup (IF failed THEN {i} ELSE {})]
                 IN  OtherBad(DropBad(s4, f, n, ids \ {i}, t))
             Dropped(s2, failed) ==
                 IF Ok(s2, f, dMk)
                 THEN Marked(OrcMarkBadReplica(Logged(s2, f, dMk), n, i, t), failed)
                 ELSE Marked(Logged(s2, f, dMk), TRUE)
         IN  IF Ok(s, f, dRm)
             THEN Dropped([Logged(s, f, dRm) EXCEPT !.ctl[n] = @ \ {i}], FALSE)
             ELSE Dropped(Logged(s, f, dRm), TRUE)

CheckControllerNoDetach(s, f, n, modes, t) ==
    LET dLs == D("ls", n, ControllerInst)
        good == {i \in DOMAIN modes : modes[i] = "RW"}
        wo == {i \in DOMAIN modes : modes[i] = "WO"}
        bad == {i \in DOMAIN modes : modes[i] = "ERR"}
        BadDropped(drop) ==
            IF drop.errs # {} THEN Res(drop.s, "error", NilVolume)
            ELSE IF /\ Cardinality(good) < s.vols[n].NumberOfReplicas
                    /\ wo = {}
                    /\ s.addingReplicas[n] = 0
                 THEN createAndAddReplicaToController(drop.s, f, n)
            ELSE Res(drop.s, "", NilVolume)
    IN  IF ~Ok(s, f, dLs) THEN Res(Logged(s, f, dLs), "ControllerError", NilVolume)
        ELSE BadDropped(DropBad(Logged(s, f, dLs), f, n, bad, t))

CheckControllerAllControllerErrors(s, f, n, modes, t) ==
    LET dLs == D("ls", n, ControllerInst)
        good == {i \in DOMAIN modes : modes[i] = "RW"}
        wo == {i \in DOMAIN modes : modes[i] = "WO"}
        bad == {i \in DOMAIN modes : modes[i] = "ERR"}
        BadDropped(drop) ==
            IF drop.errs # {} THEN Res(drop.s, "ControllerError", NilVolume)
            ELSE IF good = {} THEN Detach(drop.s, f, n)
            ELSE IF /\ Cardinality(good) < s.vols[n].NumberOfReplicas
                    /\ wo = {}
                    /\ s.addingReplicas[n] = 0
                 THEN createAndAddReplicaToController(drop.s, f, n)
            ELSE Res(drop.s, "", NilVolume)
    IN  IF ~Ok(s, f, dLs) THEN Res(Logged(s, f, dLs), "ControllerError", NilVolume)
        ELSE BadDropped(DropBad(Logged(s, f, dLs), f, n, bad, t))

CheckController(s, f, n, modes, t) ==
    LET dLs == D("ls", n, ControllerInst)
        good == {i \in DOMAIN modes : modes[i] = "RW"}
        wo == {i \in DOMAIN modes : modes[i] = "WO"}
        bad == {i \in DOMAIN modes : modes[i] = "ERR"}
        BadDropped(drop) ==
            IF drop.errs # {} THEN Res(drop.s, "error", NilVolume)
            ELSE IF good = {} THEN Detach(drop.s, f, n)
            ELSE IF /\ Cardinality(good) < s.vols[n].NumberOfReplicas
                    /\ wo = {}
                    /\ s.addingReplicas[n] = 0
                 THEN createAndAddReplicaToController(drop.s, f, n)
            ELSE Res(drop.s, "", NilVolume)
    IN  IF ~Ok(s, f, dLs) THEN Res(Logged(s, f, dLs), "ControllerError", NilVolume)
        ELSE BadDropped(DropBad(Logged(s, f, dLs), f, n, bad, t))

AddReplicaTaskNoDefer(s, f, t) ==
    LET n == t.vol
        i == t.inst
        dAdd == D("add", n, i)
        dSt == D("StopInstance", n, i)
        dRm == D("RemoveInstance", n, i)
        Finished(s5) == [s5 EXCEPT !.repairs = @ \ {t}]
        OrphanStopped(s3) ==
            IF Ok(s3, f, dRm) THEN Finished(OrcRemoveInstance(Logged(s3, f, dRm), n, i))
            ELSE Finished(Logged(s3, f, dRm))
        AddFailed(s1) ==
            IF Ok(s1, f, dSt) THEN OrphanStopped(OrcStopInstance(Logged(s1, f, dSt), n, i))
            ELSE OrphanStopped(Logged(s1, f, dSt))
    IN  IF Ok(s, f, dAdd)
        THEN addingReplicasCount(
                 Finished([Logged(s, f, dAdd) EXCEPT !.ctl[n] = @ \cup {i}]), n, -1)
        ELSE AddFailed(Logged(s, f, dAdd))

AddReplicaTaskRemoveIfStopped(s, f, t) ==
    LET n == t.vol
        i == t.inst
        dAdd == D("add", n, i)
        dSt == D("StopInstance", n, i)
        dRm == D("RemoveInstance", n, i)
        Finished(s5) == addingReplicasCount([s5 EXCEPT !.repairs = @ \ {t}], n, -1)
        OrphanStopped(s3) ==
            IF Ok(s3, f, dRm) THEN Finished(OrcRemoveInstance(Logged(s3, f, dRm), n, i))
            ELSE Finished(Logged(s3, f, dRm))
        AddFailed(s1) ==
            IF Ok(s1, f, dSt) THEN OrphanStopped(OrcStopInstance(Logged(s1, f, dSt), n, i))
            ELSE Finished(Logged(s1, f, dSt))
    IN  IF Ok(s, f, dAdd) THEN Finished([Logged(s, f, dAdd) EXCEPT !.ctl[n] = @ \cup {i}])
        ELSE AddFailed(Logged(s, f, dAdd))

\* the body of the task after the count went up
AddReplicaTask(s, f, t) ==
    LET n == t.vol
        i == t.inst
        dAdd == D("add", n, i)
        dSt == D("StopInstance", n, i)
        dRm == D("RemoveInstance", n, i)
        Finished(s5) == addingReplicasCount([s5 EXCEPT !.repairs = @ \ {t}], n, -1)
        OrphanStopped(s3) ==
            IF Ok(s3, f, dRm) THEN Finished(OrcRemoveInstance(Logged(s3, f, dRm), n, i))
            ELSE Finished(Logged(s3, f, dRm))
        AddFailed(s1) ==
            IF Ok(s1, f, dSt) THEN OrphanStopped(OrcStopInstance(Logged(s1, f, dSt), n, i))
            ELSE OrphanStopped(Logged(s1, f, dSt))
    IN  IF Ok(s, f, dAdd) THEN Finished([Logged(s, f, dAdd) EXCEPT !.ctl[n] = @ \cup {i}])
        ELSE AddFailed(Logged(s, f, dAdd))

\* the manager keeps a bad replica for two hours; the times of the model are
\* hours, and now is any hour up to the first one at which the latest mark is old
KeepBadReplicasPeriod == 2
Nows == 1..(MaxTime + KeepBadReplicasPeriod + 1)

\* util.ParseTime: the marks MarkBadReplica makes are hours and parse; a
\* BadTimestamp that does not parse is Unparsable
Unparsable == -1
ParseTime(ts) == [err |-> ts = Unparsable, time |-> ts]
UnparsedReplicas(volume) ==
    {k \in BadReplicas(volume) : ParseTime(volume.Replicas[k].BadTimestamp).err}

OldReplicasAtPeriod(volume, now) ==
    {k \in BadReplicas(volume) \ UnparsedReplicas(volume) :
        ParseTime(volume.Replicas[k].BadTimestamp).time + KeepBadReplicasPeriod <= now}

OldReplicasUnparsed(volume, now) ==
    {k \in BadReplicas(volume) :
        volume.Replicas[k].BadTimestamp + KeepBadReplicasPeriod < now}

OldReplicas(volume, now) ==
    {k \in BadReplicas(volume) \ UnparsedReplicas(volume) :
        ParseTime(volume.Replicas[k].BadTimestamp).time + KeepBadReplicasPeriod < now}

\* one task per bad replica, which starts a StopInstance if the replica runs
\* and a RemoveInstance if it is old; every call is made whatever fails, and
\* the failed ones are collected.  The two calls on one replica run side by
\* side: stopping an instance that is gone changes nothing, so either order
\* leaves the same state.
Cleanup(s, f, name, now) ==
    LET Removed(rm, otherErrs) ==
            Res(rm.s, IF otherErrs \cup rm.errs # {} THEN "error" ELSE "", NilVolume)
        BadStopped(st, volume) ==
            Removed(FanOut(st.s, f, "RemoveInstance", name, OldReplicas(volume, now)),
                    st.errs \cup UnparsedReplicas(volume))
        CleanupGot(g) ==
            IF g.err # "" THEN Res(g.s, "error", NilVolume)
            ELSE IF g.vol = NilVolume THEN Res(g.s, "", NilVolume)
            ELSE BadStopped(FanOut(g.s, f, "StopInstance", name,
                                   BadReplicas(g.vol) \cap RunningReplicas(g.vol)),
                            g.vol)
    IN  CleanupGot(Get(s, f, name))

\* ---- the manager as a state machine: one action per operation, taken as a
\* whole (the API serves the operations of this model one after another)
St ==
    [vols |-> vols, insts |-> insts, ctl |-> ctl, monitors |-> monitors,
     addingReplicas |-> addingReplicas, repairs |-> repairs, cs |-> cs,
     heap |-> heap, log |-> <<>>, blocked |-> FALSE, mu |-> FALSE]

Commit(s) ==
    /\ ~s.blocked
    /\ vols' = s.vols
    /\ insts' = s.insts
    /\ ctl' = s.ctl
    /\ monitors' = s.monitors
    /\ addingReplicas' = s.addingReplicas
    /\ repairs' = s.repairs
    /\ cs' = s.cs
    /\ heap' = s.heap

\* the calls of a run that succeeded: the ones whose failure changes the run
Calls(log) ==
    {D(log[j].call, log[j].vol, log[j].inst) :
        j \in {k \in DOMAIN log :
                  log[k].ok /\ log[k].call \notin {"monitor", "Close", "cron"}}}

\* the sets of at most n calls whose failure an operation meets
FailSetsUpTo(n, CallsOf(_)) ==
    LET F[k \in 0..n] ==
            IF k = 0 THEN {{}}
            ELSE F[k - 1] \cup UNION {{f \cup {d} : d \in CallsOf(f)} : f \in F[k - 1]}
    IN  F[n]

\* a behaviour has at most MaxFailures faults in all
FailSets(CallsOf(_)) == FailSetsUpTo(MaxFailures - faults, CallsOf)

Charge(f) == faults' = faults + Cardinality(f)

\* an operation that met the failures f has returned out
Returns(out, f) == Commit(out.s) /\ Charge(f)
StartReturns(out, f) == Returns(out, f) /\ started' = (out.err = "")

ManInit ==
    /\ PrIdle
    /\ FoIdle
    /\ UrIdle
    /\ vols = EmptyMap
    /\ insts = {}
    /\ ctl = [n \in Names |-> {}]
    /\ monitors = {}
    /\ addingReplicas = [n \in Names |-> 0]
    /\ repairs = {}
    /\ started = FALSE
    /\ faults = 0
    /\ cs = EmptyMap
    /\ heap = EmptyMap
    /\ regPc = "recv"
    /\ r = NoReq
    /\ c = NilHandle
    /\ pc = [k \in Clients |-> "idle"]
    /\ req = [k \in Clients |-> NoReq]
    /\ ret = [k \in Clients |-> NilHandle]
    /\ ncalls = 0
    /\ vsVol = NoVolume
    /\ vsState = ""

StartOp ==
    /\ ~started
    /\ \E f \in FailSets(LAMBDA g : Calls(Start(St, g).s.log)) :
          StartReturns(Start(St, f), f)
    /\ UNCHANGED notMan

GetOp(n) ==
    /\ started
    /\ \E f \in FailSets(LAMBDA g : Calls(Get(St, g, n).s.log)) :
          Returns(Get(St, f, n), f)
    /\ UNCHANGED <<started, notMan>>

ListOp ==
    /\ started
    /\ \E f \in FailSets(LAMBDA g : Calls(List(St, g).s.log)) :
          Returns(List(St, f), f)
    /\ UNCHANGED <<started, notMan>>

CreateOracles(f) == [addr : Addrs, pick : DeletePicks(f)]

CreateOp(volume, settings, backup) ==
    /\ started
    /\ \E f \in FailSets(LAMBDA g :
                  UNION {Calls(Create(St, g, volume, settings, backup, o).s.log) :
                            o \in CreateOracles(g)}) :
       \E o \in CreateOracles(f) :
          Returns(Create(St, f, volume, settings, backup, o), f)
    /\ UNCHANGED <<started, notMan>>

AttachOracles(f, n) ==
    LET v == Get(St, f, n).vol
    IN  [addr : Addrs, pick : IF v = NilVolume THEN {{}} ELSE AttachPicks(v)]

AttachOp(n) ==
    /\ started
    /\ \E f \in FailSets(LAMBDA g :
                  UNION {Calls(Attach(St, g, n, o).s.log) : o \in AttachOracles(g, n)}) :
       \E o \in AttachOracles(f, n) :
          Returns(Attach(St, f, n, o), f)
    /\ UNCHANGED <<started, notMan>>

DetachOp(n) ==
    /\ started
    /\ \E f \in FailSets(LAMBDA g : Calls(Detach(St, g, n).s.log)) :
          Returns(Detach(St, f, n), f)
    /\ UNCHANGED <<started, notMan>>

DeleteOracles(f) == [addr : {"a1"}, pick : DeletePicks(f)]

DeleteOp(n) ==
    /\ started
    /\ \E f \in FailSets(LAMBDA g :
                  UNION {Calls(Delete(St, g, n, o).s.log) : o \in DeleteOracles(g)}) :
       \E o \in DeleteOracles(f) :
          Returns(Delete(St, f, n, o), f)
    /\ UNCHANGED <<started, notMan>>

\* the time of a MarkBadReplica: not before the marks already made
Stamps(n) ==
    {t \in 1..MaxTime : \A i \in DOMAIN vols[n].Replicas :
                            vols[n].Replicas[i].BadTimestamp <= t}

\* the monitor of volume n runs a health check; modes is what the controller
\* reports of each replica it is connected to
CheckControllerWith(n, modes) ==
    /\ started
    /\ n \in monitors
    /\ n \in DOMAIN vols
    /\ \E t \in IF \E i \in ctl[n] : modes[i] = "ERR" THEN Stamps(n) ELSE {MaxTime} :
       \E f \in FailSets(LAMBDA g : Calls(CheckController(St, g, n, modes, t).s.log)) :
          Returns(CheckController(St, f, n, modes, t), f)
    /\ UNCHANGED <<started, notMan>>

CheckControllerOp(n) ==
    \E modes \in [ctl[n] -> Modes] : CheckControllerWith(n, modes)

\* the reports of a controller one of whose replicas fails once: every
\* replica RW, or, while the volume has all its replicas and none is marked
\* bad, one of them ERR and the others RW
RepairModes(n) ==
    {[i \in ctl[n] |-> "RW"]} \cup
    (IF /\ n \in DOMAIN vols
        /\ vols[n].NumberOfReplicas >= 2
        /\ BadReplicas(vols[n]) = {}
        /\ ctl[n] = DOMAIN vols[n].Replicas
        /\ Cardinality(ctl[n]) = vols[n].NumberOfReplicas
     THEN {[i \in ctl[n] |-> IF i = e THEN "ERR" ELSE "RW"] : e \in ctl[n]}
     ELSE {})

RepairCheckOp(n) ==
    \E modes \in RepairModes(n) : CheckControllerWith(n, modes)

\* the monitor of volume n runs a cleanup at the hour now, not before the
\* marks already made
CleanupOp(n) ==
    /\ started
    /\ n \in monitors
    /\ \E now \in {t \in Nows : n \in DOMAIN vols => t \in Stamps(n) \cup (MaxTime..t)} :
       \E f \in FailSets(LAMBDA g : Calls(Cleanup(St, g, n, now).s.log)) :
          Returns(Cleanup(St, f, n, now), f)
    /\ UNCHANGED <<started, notMan>>

RepairBegin(t) ==
    /\ t \in repairs
    /\ t.pc = "go"
    /\ repairs' = (repairs \ {t}) \cup {RepairTask(t.vol, t.inst, "add")}
    /\ addingReplicas' = addingReplicasCount(St, t.vol, 1).addingReplicas
    /\ UNCHANGED <<vols, insts, ctl, monitors, cs, heap, started, faults, notMan>>

RepairFinish(t) ==
    /\ t \in repairs
    /\ t.pc = "add"
    /\ \E f \in FailSets(LAMBDA g : Calls(AddReplicaTask(St, g, t).log)) :
          Commit(AddReplicaTask(St, f, t)) /\ Charge(f)
    /\ UNCHANGED <<started, notMan>>

\* the controller process of a volume dies
ControllerCrash(n) ==
    /\ n \in DOMAIN vols
    /\ vols[n].Controller # NilController
    /\ vols[n].Controller.Running
    /\ faults < MaxFailures
    /\ faults' = faults + 1
    /\ vols' = [vols EXCEPT ![n].Controller.Running = FALSE]
    /\ UNCHANGED <<insts, ctl, monitors, addingReplicas, repairs, cs, heap, started, notMan>>

\* the manager process is restarted: New() on the same orchestrator
Restart ==
    /\ started
    /\ monitors' = {}
    /\ addingReplicas' = [n \in Names |-> 0]
    /\ repairs' = {}
    /\ cs' = EmptyMap
    /\ heap' = EmptyMap
    /\ started' = FALSE
    /\ UNCHANGED <<vols, insts, ctl, faults, notMan>>

ManNext ==
    \/ StartOp
    \/ \E n \in Names : GetOp(n)
    \/ ListOp
    \/ \E volume \in CreateArgs :
       \E settings \in IF volume.Name \in DOMAIN vols THEN {NilSettings} ELSE SettingsArgs :
       \E backup \in IF volume.FromBackup = "" \/ volume.Name \in DOMAIN vols
                     THEN {[sizeParses |-> TRUE]} ELSE BackupArgs :
          CreateOp(volume, settings, backup)
    \/ \E n \in Names : AttachOp(n)
    \/ \E n \in Names : DetachOp(n)
    \/ \E n \in Names : DeleteOp(n)
    \/ \E n \in Names : CheckControllerOp(n)
    \/ \E t \in repairs : RepairBegin(t)
    \/ \E t \in repairs : RepairFinish(t)
    \/ \E n \in Names : ControllerCrash(n)
    \/ Restart

Spec == ManInit /\ [][ManNext]_vars

\* ---- the manager with its monitors at work and no fault: every call
\* succeeds and no controller dies
MonInit ==
    /\ PrIdle
    /\ FoIdle
    /\ UrIdle
    /\ vols = EmptyMap
    /\ insts = {}
    /\ ctl = [n \in Names |-> {}]
    /\ monitors = {}
    /\ addingReplicas = [n \in Names |-> 0]
    /\ repairs = {}
    /\ started = FALSE
    /\ faults = MaxFailures
    /\ cs = EmptyMap
    /\ heap = EmptyMap
    /\ regPc = "recv"
    /\ r = NoReq
    /\ c = NilHandle
    /\ pc = [k \in Clients |-> "idle"]
    /\ req = [k \in Clients |-> NoReq]
    /\ ret = [k \in Clients |-> NilHandle]
    /\ ncalls = 0
    /\ vsVol = NoVolume
    /\ vsState = ""

MonNext ==
    \/ StartOp
    \/ \E n \in Names : GetOp(n)
    \/ ListOp
    \/ \E volume \in CreateArgs :
       \E settings \in IF volume.Name \in DOMAIN vols THEN {NilSettings} ELSE SettingsArgs :
       \E backup \in IF volume.FromBackup = "" \/ volume.Name \in DOMAIN vols
                     THEN {[sizeParses |-> TRUE]} ELSE BackupArgs :
          CreateOp(volume, settings, backup)
    \/ \E n \in Names : AttachOp(n)
    \/ \E n \in Names : DetachOp(n)
    \/ \E n \in Names : DeleteOp(n)
    \/ \E n \in Names : CheckControllerOp(n)
    \/ \E n \in Names : CleanupOp(n)
    \/ \E t \in repairs : RepairBegin(t)
    \/ \E t \in repairs : RepairFinish(t)
    \/ Restart

SpecMonitor == MonInit /\ [][MonNext]_vars

\* ---- one replica of an attached volume fails and nothing else does: the
\* monitor runs its health checks and cleanups again and again, and every task
\* that was started gets to run
RepairNext ==
    \/ StartOp
    \/ \E volume \in {v \in CreateArgs : v.FromBackup = ""} :
       \E settings \in IF volume.Name \in DOMAIN vols THEN {NilSettings} ELSE SettingsArgs :
          CreateOp(volume, settings, [sizeParses |-> TRUE])
    \/ \E n \in Names : AttachOp(n)
    \/ \E n \in Names : RepairCheckOp(n)
    \/ \E n \in Names : CleanupOp(n)
    \/ \E t \in repairs : RepairBegin(t)
    \/ \E t \in repairs : RepairFinish(t)

SpecRepairFair ==
    /\ MonInit /\ [][RepairNext]_vars
    /\ WF_vars(\E t \in repairs : RepairBegin(t))
    /\ WF_vars(\E t \in repairs : RepairFinish(t))

\* ---- the same tasks where calls fail: a replica fails, and so may the
\* calls of the health checks and of the repair tasks
SpecRepairFaultsFair ==
    /\ ManInit /\ [][RepairNext]_vars
    /\ WF_vars(\E t \in repairs : RepairBegin(t))
    /\ WF_vars(\E t \in repairs : RepairFinish(t))

\* ---- volumeState on every small volume record
ReplicaRecs ==
    [BadTimestamp : 0..MaxTime, Running : BOOLEAN]
ReplicaMaps ==
    UNION {[S -> ReplicaRecs] : S \in SUBSET ReplicaIds}
VsControllers ==
    {NilController} \cup {[nil |-> FALSE, Running |-> b] : b \in BOOLEAN}
VsVolumes ==
    [NumberOfReplicas : 0..MaxReplicas, Replicas : ReplicaMaps, Controller : VsControllers]

VsInit ==
    /\ PrIdle
    /\ FoIdle
    /\ UrIdle
    /\ vsVol \in VsVolumes
    /\ vsState = ""
    /\ cs = EmptyMap
    /\ heap = EmptyMap
    /\ regPc = "recv"
    /\ r = NoReq
    /\ c = NilHandle
    /\ pc = [k \in Clients |-> "idle"]
    /\ req = [k \in Clients |-> NoReq]
    /\ ret = [k \in Clients |-> NilHandle]
    /\ ncalls = 0
    /\ vols = EmptyMap
    /\ insts = {}
    /\ ctl = [n \in Names |-> {}]
    /\ monitors = {}
    /\ addingReplicas = [n \in Names |-> 0]
    /\ repairs = {}
    /\ started = FALSE
    /\ faults = 0

VsCompute ==
    /\ vsState = ""
    /\ vsState' = volumeState(vsVol)
    /\ vsVol' = vsVol
    /\ UNCHANGED notVs

VsNext == VsCompute

\* ------------------------------------------- package controller: parseReplica
\* a line is a sequence of characters; strings.Fields splits it around each
\* run of white space and returns no empty field
Whitespace == {" "}
Chars == Whitespace \cup {"a", "R", "W", "O", "E"}
Lines == UNION {[1..k -> Chars] : k \in 0..MaxLine}

RECURSIVE FieldsFrom(_, _, _)
FieldsFrom(s, cur, acc) ==
    IF s = <<>> THEN IF cur = <<>> THEN acc ELSE Append(acc, cur)
    ELSE IF Head(s) \in Whitespace
    THEN FieldsFrom(Tail(s), <<>>, IF cur = <<>> THEN acc ELSE Append(acc, cur))
    ELSE FieldsFrom(Tail(s), Append(cur, Head(s)), acc)
FieldsKeepingEmpty(s) ==
    IF s # <<>> /\ Head(s) \in Whitespace
    THEN <<<<>>>> \o FieldsFrom(Tail(s), <<>>, <<>>)
    ELSE FieldsFrom(s, <<>>, <<>>)
Fields(s) == FieldsFrom(s, <<>>, <<>>)

\* the map modes: the tokens of the column and the ReplicaMode of each
modesMap == [t \in {<<"R", "W">>, <<"W", "O">>, <<"E", "R", "R">>} |->
             IF t = <<"R", "W">> THEN "RW" ELSE IF t = <<"W", "O">> THEN "WO" ELSE "ERR"]

NilReplica == [nil |-> TRUE]
parseReplicaWith(s, fields) ==
    IF Len(fields) < 2 THEN [parsed |-> TRUE, err |-> TRUE, replica |-> NilReplica]
    ELSE [parsed |-> TRUE, err |-> FALSE,
          replica |-> [nil |-> FALSE, Address |-> fields[1],
                       Mode |-> IF fields[2] \in DOMAIN modesMap THEN modesMap[fields[2]]
                                ELSE "ERR"]]
parseReplica(s) == parseReplicaWith(s, Fields(s))

\* a line of `ls`: the address, the blanks of the column, the mode
ModeToken(mode) == CHOOSE t \in DOMAIN modesMap : modesMap[t] = mode
FormatReplica(replica, pad) ==
    replica.Address \o [j \in 1..pad |-> " "] \o ModeToken(replica.Mode)

PrInit ==
    /\ FoIdle
    /\ UrIdle
    /\ prLine \in Lines
    /\ prOut = NoParse
    /\ vsVol = NoVolume
    /\ vsState = ""
    /\ cs = EmptyMap
    /\ heap = EmptyMap
    /\ regPc = "recv"
    /\ r = NoReq
    /\ c = NilHandle
    /\ pc = [k \in Clients |-> "idle"]
    /\ req = [k \in Clients |-> NoReq]
    /\ ret = [k \in Clients |-> NilHandle]
    /\ ncalls = 0
    /\ vols = EmptyMap
    /\ insts = {}
    /\ ctl = [n \in Names |-> {}]
    /\ monitors = {}
    /\ addingReplicas = [n \in Names |-> 0]
    /\ repairs = {}
    /\ started = FALSE
    /\ faults = 0

\* GetReplicaStates parses a line it has read
PrParse ==
    /\ prOut = NoParse
    /\ prOut' = parseReplica(prLine)
    /\ prLine' = prLine
    /\ UNCHANGED notPr

\* the controller prints the replica again
PrFormat ==
    /\ prOut # NoParse
    /\ ~prOut.err
    /\ \E pad \in 1..MaxPad : prLine' = FormatReplica(prOut.replica, pad)
    /\ prOut' = NoParse
    /\ UNCHANGED notPr

PrNext == PrParse \/ PrFormat

\* ------------------------------------------------ package manager: fan-outs
\* The fan-outs of the manager as the tasks they are: the function loops
\* over the replicas, adds to the WaitGroup and starts a task for each, starts
\* the task that waits for the WaitGroup and closes errCh, and then reads
\* errCh until it is closed.  errCh has no buffer: a send ends when the
\* function takes the value.
FanOuts == {"doAttach.stop", "doAttach.start", "doDetach", "CheckController", "Cleanup"}
Roles == {"outer", "StopInstance", "StartInstance", "RemoveInstance", "rm", "MarkBadReplica"}
TaskIds == (1..MaxFan) \X Roles
NoTask == [pc |-> "", failed |-> FALSE, val |-> ""]
FanNow == 2 + KeepBadReplicasPeriod
FanStamps(kind) ==
    CASE kind = "doAttach.stop" -> {NoTimestamp, Unparsable, 1}
      [] kind = "Cleanup" -> {NoTimestamp, Unparsable, 1, 1 + KeepBadReplicasPeriod}
      [] OTHER -> {NoTimestamp}
FanReplicas(kind) ==
    [Running : IF kind \in {"doAttach.stop", "Cleanup"} THEN BOOLEAN ELSE {kind # "doAttach.start"},
     BadTimestamp : FanStamps(kind),
     Mode : IF kind = "CheckController" THEN Modes ELSE {"RW"}]
FanVolumes(kind) == UNION {[ids -> FanReplicas(kind)] : ids \in SUBSET (1..MaxFan)}

\* the tasks of CheckController and Cleanup send the wrapped error whether
\* it is nil or not; those of doAttach and doDetach send an error only
SendsNil(kind) == kind \in {"CheckController", "Cleanup"}

FoInit ==
    /\ fanOut \in FanOuts
    /\ fanReps \in FanVolumes(fanOut)
    /\ unvisited = DOMAIN fanReps
    /\ mainPc = "loop"
    /\ joinPc = ""
    /\ wg = 0
    /\ tasks = [t \in TaskIds |-> NoTask]
    /\ errChClosed = 0
    /\ errs = {}
    /\ PrIdle
    /\ UrIdle
    /\ vsVol = NoVolume
    /\ vsState = ""
    /\ cs = EmptyMap
    /\ heap = EmptyMap
    /\ regPc = "recv"
    /\ r = NoReq
    /\ c = NilHandle
    /\ pc = [k \in Clients |-> "idle"]
    /\ req = [k \in Clients |-> NoReq]
    /\ ret = [k \in Clients |-> NilHandle]
    /\ ncalls = 0
    /\ vols = EmptyMap
    /\ insts = {}
    /\ ctl = [n \in Names |-> {}]
    /\ monitors = {}
    /\ addingReplicas = [n \in Names |-> 0]
    /\ repairs = {}
    /\ started = FALSE
    /\ faults = 0

\* the task the loop starts for replica i, if any: wg.Add(1) and go func
LoopTask(kind, replica) ==
    CASE kind = "doAttach.stop" -> IF replica.Running THEN "StopInstance" ELSE ""
      [] kind = "doAttach.start" -> "StartInstance"
      [] kind = "doDetach" -> "StopInstance"
      [] kind = "CheckController" -> IF replica.Mode = "ERR" THEN "outer" ELSE ""
      [] kind = "Cleanup" -> IF replica.BadTimestamp # NoTimestamp THEN "outer" ELSE ""

\* recentBadReplica is nil when the loop of doAttach reads its BadTimestamp
LoopPanics(kind, replica) ==
    /\ kind = "doAttach.stop"
    /\ replica.BadTimestamp # NoTimestamp
    /\ ~ParseTime(replica.BadTimestamp).err

Spawned(role) == [pc |-> IF role = "outer" THEN "outer" ELSE "call", failed |-> FALSE, val |-> ""]

\* one iteration of the loop over the replicas (a Go map: in any order)
FoLoop(i) ==
    /\ mainPc = "loop"
    /\ i \in unvisited
    /\ unvisited' = unvisited \ {i}
    /\ LET role == LoopTask(fanOut, fanReps[i])
       IN  IF role = "" THEN UNCHANGED <<wg, tasks>>
           ELSE /\ wg' = wg + 1
                /\ tasks' = [tasks EXCEPT ![<<i, role>>] = Spawned(role)]
    /\ mainPc' = IF LoopPanics(fanOut, fanReps[i]) THEN "panic" ELSE "loop"
    /\ UNCHANGED <<fanOut, fanReps, joinPc, errChClosed, errs>>
    /\ UNCHANGED notFo

\* go func() { wg.Wait(); close(errCh) }(), and the function goes on to
\* `for err := range errCh`
FoJoinerStart ==
    /\ mainPc = "loop"
    /\ unvisited = {}
    /\ mainPc' = "range"
    /\ joinPc' = "wait"
    /\ UNCHANGED <<fanOut, fanReps, unvisited, wg, tasks, errChClosed, errs>>
    /\ UNCHANGED notFo

\* wg.Wait() returns when the counter is zero
FoClose ==
    /\ joinPc = "wait"
    /\ wg = 0
    /\ joinPc' = "done"
    /\ errChClosed' = errChClosed + 1
    /\ UNCHANGED <<fanOut, fanReps, unvisited, mainPc, wg, tasks, errs>>
    /\ UNCHANGED notFo

\* the task of an ERR replica in CheckController: wg.Add(2) and the two tasks
FoOuterCheck(i) ==
    /\ fanOut = "CheckController"
    /\ tasks[<<i, "outer">>].pc = "outer"
    /\ wg' = wg + 2
    /\ tasks' = [tasks EXCEPT ![<<i, "outer">>].pc = "exit",
                              ![<<i, "rm">>] = Spawned("rm"),
                              ![<<i, "MarkBadReplica">>] = Spawned("MarkBadReplica")]
    /\ UNCHANGED <<fanOut, fanReps, unvisited, mainPc, joinPc, errChClosed, errs>>
    /\ UNCHANGED notFo

\* the task of a bad replica in Cleanup, up to the parse of its BadTimestamp
FoOuterStop(i) ==
    /\ fanOut = "Cleanup"
    /\ tasks[<<i, "outer">>].pc = "outer"
    /\ IF fanReps[i].Running
       THEN /\ wg' = wg + 1
            /\ tasks' = [tasks EXCEPT ![<<i, "outer">>].pc = "parse",
                                      ![<<i, "StopInstance">>] = Spawned("StopInstance")]
       ELSE /\ wg' = wg
            /\ tasks' = [tasks EXCEPT ![<<i, "outer">>].pc = "parse"]
    /\ UNCHANGED <<fanOut, fanReps, unvisited, mainPc, joinPc, errChClosed, errs>>
    /\ UNCHANGED notFo

\* and from the parse on: the error of the parse is sent, an old replica gets
\* its RemoveInstance task
FoOuterParse(i) ==
    /\ fanOut = "Cleanup"
    /\ tasks[<<i, "outer">>].pc = "parse"
    /\ LET badTime == ParseTime(fanReps[i].BadTimestamp)
       IN  IF badTime.err
           THEN /\ wg' = wg
                /\ tasks' = [tasks EXCEPT ![<<i, "outer">>] =
                                [pc |-> "send", failed |-> TRUE, val |-> "err"]]
           ELSE IF badTime.time + KeepBadReplicasPeriod < FanNow
           THEN /\ wg' = wg + 1
                /\ tasks' = [tasks EXCEPT ![<<i, "outer">>].pc = "exit",
                                          ![<<i, "RemoveInstance">>] = Spawned("RemoveInstance")]
           ELSE /\ wg' = wg
                /\ tasks' = [tasks EXCEPT ![<<i, "outer">>].pc = "exit"]
    /\ UNCHANGED <<fanOut, fanReps, unvisited, mainPc, joinPc, errChClosed, errs>>
    /\ UNCHANGED notFo

\* a task makes its call, which succeeds or fails
FoCall(t, ok) ==
    /\ tasks[t].pc = "call"
    /\ tasks' = [tasks EXCEPT ![t] =
                    IF ok /\ ~SendsNil(fanOut)
                    THEN [pc |-> "exit", failed |-> FALSE, val |-> ""]
                    ELSE [pc |-> "send", failed |-> ~ok,
                          val |-> IF ok THEN "nil" ELSE "err"]]
    /\ UNCHANGED <<fanOut, fanReps, unvisited, mainPc, joinPc, wg, errChClosed, errs>>
    /\ UNCHANGED notFo

\* errCh <- err meets the receive of the range loop, which appends the error
\* (CheckController and Cleanup skip a nil)
FoSend(t) ==
    /\ tasks[t].pc = "send"
    /\ mainPc = "range"
    /\ errs' = IF tasks[t].val = "nil" /\ SendsNil(fanOut) THEN errs ELSE errs \cup {t}
    /\ tasks' = [tasks EXCEPT ![t].pc = "exit"]
    /\ UNCHANGED <<fanOut, fanReps, unvisited, mainPc, joinPc, wg, errChClosed>>
    /\ UNCHANGED notFo

\* the deferred wg.Done()
FoDone(t) ==
    /\ tasks[t].pc = "exit"
    /\ wg' = wg - 1
    /\ tasks' = [tasks EXCEPT ![t].pc = "done"]
    /\ UNCHANGED <<fanOut, fanReps, unvisited, mainPc, joinPc, errChClosed, errs>>
    /\ UNCHANGED notFo

\* the range loop ends when errCh is closed; len(errs) > 0 is the error
FoReturn ==
    /\ mainPc = "range"
    /\ errChClosed > 0
    /\ mainPc' = "returned"
    /\ UNCHANGED <<fanOut, fanReps, unvisited, joinPc, wg, tasks, errChClosed, errs>>
    /\ UNCHANGED notFo

FoNext ==
    \/ \E i \in 1..MaxFan : FoLoop(i)
    \/ FoJoinerStart
    \/ FoClose
    \/ \E i \in 1..MaxFan : FoOuterCheck(i)
    \/ \E i \in 1..MaxFan : FoOuterStop(i)
    \/ \E i \in 1..MaxFan : FoOuterParse(i)
    \/ \E t \in TaskIds : \E ok \in BOOLEAN : FoCall(t, ok)
    \/ \E t \in TaskIds : FoSend(t)
    \/ \E t \in TaskIds : FoDone(t)
    \/ FoReturn

\* ------------------------------- package manager: UpdateRecurring and monitor
\* UpdateRecurring of one volume beside the monitor task of that volume, each
\* as the steps it takes.  The monitor is one task: in its loop it waits for
\* the tick or for a message on its cron channel, and on a tick it runs
\* CheckController; the channel has no buffer.
CronVolume == NameSeq[1]

UrInit ==
    /\ muHolder = ""
    /\ urPc = ""
    /\ urValid = FALSE
    /\ urCalls = 0
    /\ moChecks = 0
    /\ cronRecv = 0
    /\ monitors \in {{}, {CronVolume}}
    /\ moPc = IF CronVolume \in monitors THEN "select" ELSE "closed"
    /\ PrIdle
    /\ FoIdle
    /\ vsVol = NoVolume
    /\ vsState = ""
    /\ cs = EmptyMap
    /\ heap = EmptyMap
    /\ regPc = "recv"
    /\ r = NoReq
    /\ c = NilHandle
    /\ pc = [k \in Clients |-> "idle"]
    /\ req = [k \in Clients |-> NoReq]
    /\ ret = [k \in Clients |-> NilHandle]
    /\ ncalls = 0
    /\ vols = EmptyMap
    /\ insts = {}
    /\ ctl = [n \in Names |-> {}]
    /\ addingReplicas = [n \in Names |-> 0]
    /\ repairs = {}
    /\ started = FALSE
    /\ faults = 0

\* a caller calls UpdateRecurring with valid or invalid jobs
UrCall(valid) ==
    /\ urPc = ""
    /\ urCalls < MaxUpdates
    /\ urCalls' = urCalls + 1
    /\ urValid' = valid
    /\ urPc' = "GetVolume"
    /\ UNCHANGED <<muHolder, moPc, moChecks, cronRecv, monitors>>
    /\ UNCHANGED notUr

\* orc.GetVolume, orc.UpdateVolume and ValidateJobs: an error returns
UrGetVolume(ok) ==
    /\ urPc = "GetVolume"
    /\ urPc' = IF ok THEN "UpdateVolume" ELSE ""
    /\ UNCHANGED <<muHolder, urValid, urCalls, moPc, moChecks, cronRecv, monitors>>
    /\ UNCHANGED notUr

UrUpdateVolume(ok) ==
    /\ urPc = "UpdateVolume"
    /\ urPc' = IF ok THEN "ValidateJobs" ELSE ""
    /\ UNCHANGED <<muHolder, urValid, urCalls, moPc, moChecks, cronRecv, monitors>>
    /\ UNCHANGED notUr

UrValidateJobs ==
    /\ urPc = "ValidateJobs"
    /\ urPc' = IF urValid THEN "updateCron" ELSE ""
    /\ UNCHANGED <<muHolder, urValid, urCalls, moPc, moChecks, cronRecv, monitors>>
    /\ UNCHANGED notUr

\* updateCron: man.Lock(), then the monitor of the volume is looked up
UrLock ==
    /\ urPc = "updateCron"
    /\ muHolder = ""
    /\ muHolder' = "UpdateRecurring"
    /\ urPc' = IF CronVolume \in monitors THEN "cronCh" ELSE "Unlock"
    /\ UNCHANGED <<urValid, urCalls, moPc, moChecks, cronRecv, monitors>>
    /\ UNCHANGED notUr

\* cronCh <- CronUpdate(jobs): the send ends when the monitor, waiting in its
\* loop, receives
UrSend ==
    /\ urPc = "cronCh"
    /\ moPc = "select"
    /\ cronRecv' = cronRecv + 1
    /\ urPc' = "Unlock"
    /\ UNCHANGED <<muHolder, urValid, urCalls, moPc, moChecks, monitors>>
    /\ UNCHANGED notUr

\* the deferred man.Unlock(), and UpdateRecurring returns nil
UrUnlock ==
    /\ urPc = "Unlock"
    /\ muHolder' = ""
    /\ urPc' = ""
    /\ UNCHANGED <<urValid, urCalls, moPc, moChecks, cronRecv, monitors>>
    /\ UNCHANGED notUr

\* the tick: the monitor calls CheckController
MoTick ==
    /\ moPc = "select"
    /\ moChecks < MaxChecks
    /\ moChecks' = moChecks + 1
    /\ moPc' = "GetReplicaStates"
    /\ UNCHANGED <<muHolder, urPc, urValid, urCalls, cronRecv, monitors>>
    /\ UNCHANGED notUr

\* CheckController up to the mutex: a failed GetReplicaStates or a failed
\* call of the fan-out returns, no good replica leads to Detach, and
\* otherwise addingReplicasCount is next
MoCheck(out) ==
    /\ moPc = "GetReplicaStates"
    /\ moPc' = out
    /\ UNCHANGED <<muHolder, urPc, urValid, urCalls, moChecks, cronRecv, monitors>>
    /\ UNCHANGED notUr

\* man.addingReplicasCount(volume.Name, 0): Lock, read, Unlock
MoCountLock ==
    /\ moPc = "addingReplicasCount"
    /\ muHolder = ""
    /\ muHolder' = "monitor"
    /\ moPc' = "count"
    /\ UNCHANGED <<urPc, urValid, urCalls, moChecks, cronRecv, monitors>>
    /\ UNCHANGED notUr

MoCountUnlock ==
    /\ moPc = "count"
    /\ muHolder' = ""
    /\ moPc' = "select"
    /\ UNCHANGED <<urPc, urValid, urCalls, moChecks, cronRecv, monitors>>
    /\ UNCHANGED notUr

\* man.Detach: stopMonitoring is the first statement of doDetach
MoStopLock ==
    /\ moPc = "Detach"
    /\ muHolder = ""
    /\ muHolder' = "monitor"
    /\ moPc' = "stopMonitoring"
    /\ UNCHANGED <<urPc, urValid, urCalls, moChecks, cronRecv, monitors>>
    /\ UNCHANGED notUr

\* mon.Close(), delete(man.monitors, ...), Unlock; the monitor ends with the
\* Detach
MoStopUnlock ==
    /\ moPc = "stopMonitoring"
    /\ monitors' = monitors \ {CronVolume}
    /\ muHolder' = ""
    /\ moPc' = "closed"
    /\ UNCHANGED <<urPc, urValid, urCalls, moChecks, cronRecv>>
    /\ UNCHANGED notUr

UrStep ==
    \/ \E ok \in BOOLEAN : UrGetVolume(ok)
    \/ \E ok \in BOOLEAN : UrUpdateVolume(ok)
    \/ UrValidateJobs
    \/ UrLock
    \/ UrSend
    \/ UrUnlock

MoStep ==
    \/ \E out \in {"select", "Detach", "addingReplicasCount"} : MoCheck(out)
    \/ MoCountLock
    \/ MoCountUnlock
    \/ MoStopLock
    \/ MoStopUnlock

UrNext ==
    \/ \E valid \in BOOLEAN : UrCall(valid)
    \/ MoTick
    \/ UrStep
    \/ MoStep

\* ========================================================== specifications
SpecRegistry == RegInit /\ [][RegNext]_vars

SpecRegistryFair ==
    /\ SpecRegistry
    /\ WF_vars(Handle)
    /\ WF_vars(Reply)

SpecVolumeState == VsInit /\ [][VsNext]_vars

SpecParse == PrInit /\ [][PrNext]_vars

SpecFanOut == FoInit /\ [][FoNext]_vars

\* a call of UpdateRecurring and a CheckController under way go on when they
\* can; a new call and a new tick may or may not come
SpecUpdateRecurring == UrInit /\ [][UrNext]_vars
SpecUpdateRecurringFair == SpecUpdateRecurring /\ WF_vars(UrStep) /\ WF_vars(MoStep)

\* every task, the function included, takes its next step when it can
SpecFanOutFair == SpecFanOut /\ WF_vars(FoNext)

\* ================================================================== claims
\* ---- the controller registry
RegistryEntriesOwned ==
    \A n \in DOMAIN cs : cs[n] \in DOMAIN heap /\ heap[cs[n]].name = n

\* the step in which the Get of caller k returns
GetReturns(k) == pc[k] = "wait" /\ pc'[k] = "idle"

GetReturnsEntry ==
    \A k \in Clients :
        GetReturns(k) =>
            LET volume == req[k].volume
            IN  /\ ret'[k] # NilHandle
                /\ MapGet(cs', volume.Name) = ret'[k]
                /\ heap'[ret'[k]].url = volume.Controller.Address

\* C1: in every state each name of the registry map has one handle, which
\* carries that name; and when a Get(volume) returns, the handle it returns is
\* the registry's entry for volume.Name and its url is
\* volume.Controller.Address
C1_RegistryEntry == []RegistryEntriesOwned /\ [][GetReturnsEntry]_vars

C1_Witness ==
    \E k \in Clients :
        /\ pc[k] = "idle" /\ ret[k] # NilHandle
        /\ MapGet(cs, heap[ret[k]].name) = ret[k]

\* a Get that finds a handle with its address returns that very handle, to
\* whoever holds it already; one that does not returns a handle nobody holds
GetReturnsSameOrFresh ==
    \A k \in Clients :
        GetReturns(k) =>
            LET volume == req[k].volume
            IN  \A j \in Clients :
                    (ret[j] # NilHandle /\ heap[ret[j]].name = volume.Name) =>
                        IF ret[j] \in Range(cs)
                           /\ heap[ret[j]].url = volume.Controller.Address
                        THEN ret'[k] = ret[j]
                        ELSE ret'[k] # ret[j]

\* the handling of a Get whose address differs from the cached handle's (or
\* that finds none) installs a new struct with the new url in place of the old
\* entry; with the same address it leaves the map alone
GetInstalls ==
    (regPc = "handle" /\ regPc' = "reply") =>
        LET name == r.volume.Name
            addr == r.volume.Controller.Address
            old == MapGet(cs, name)
        IN  IF old # NilHandle /\ heap[old].url = addr
            THEN c' = old /\ cs' = cs /\ heap' = heap
            ELSE /\ c' \notin DOMAIN heap
                 /\ heap'[c'] = [name |-> name, url |-> addr]
                 /\ cs' = MapPut(cs, name, c')
                 /\ old \notin Range(cs')

\* a handle that has left the map never comes back into it
DroppedStaysDropped ==
    \A h \in DOMAIN heap : h \notin Range(cs) => h \notin Range(cs')

\* C2: Gets with the address of the cached handle return the identical handle;
\* a Get with another address returns a fresh handle with the new url, which
\* replaces the old entry, and no later Get returns the old handle
C2_SameOrFresh ==
    [][GetReturnsSameOrFresh /\ GetInstalls /\ DroppedStaysDropped]_vars

C2_Witness ==
    \E j, k \in Clients :
        /\ j # k /\ pc[j] = "idle" /\ pc[k] = "idle"
        /\ ret[j] # NilHandle /\ ret[j] = ret[k]
        /\ \E h \in DOMAIN heap \ Range(cs) : heap[h].name = heap[ret[j]].name

\* between the receive of a request and its reply (or its `continue`) the
\* registry holds that one request; only its sender waits for a reply
OneAtATime ==
    /\ regPc = "recv" => \A k \in Clients : pc[k] # "wait"
    /\ regPc # "recv" => \A k \in Clients : (pc[k] = "wait") <=> (k = r.result)
    /\ regPc = "reply" => r.result # NilChan /\ c = MapGet(cs, r.volume.Name)

\* C4: the registry handles one request at a time, each wholly (effect and
\* reply) before it receives the next, and every Get it has received gets its
\* reply
C4_OneAtATimeAndReplied ==
    /\ []OneAtATime
    /\ \A k \in Clients : (pc[k] = "wait") ~> (pc[k] = "idle")

C4_Witness ==
    /\ regPc = "reply"
    /\ \E k \in Clients : pc[k] = "send" /\ req[k].volume.Name = r.volume.Name

\* ---- volumeState
GoodReplicas(volume) ==
    {k \in DOMAIN volume.Replicas : volume.Replicas[k].BadTimestamp = NoTimestamp}

\* C5: volumeState is Faulted with no good replica, else Detached with no
\* controller, else Healthy with exactly NumberOfReplicas good replicas, else
\* Degraded, in this order of priority
C5_VolumeState ==
    vsState # "" =>
        LET good == Cardinality(GoodReplicas(vsVol))
        IN  /\ good = 0 => vsState = "faulted"
            /\ good # 0 /\ vsVol.Controller = NilController => vsState = "detached"
            /\ good # 0 /\ vsVol.Controller # NilController
                 /\ good = vsVol.NumberOfReplicas => vsState = "healthy"
            /\ good # 0 /\ vsVol.Controller # NilController
                 /\ good # vsVol.NumberOfReplicas => vsState = "degraded"

C5_Witness ==
    /\ vsState = "degraded"
    /\ vsVol.Controller # NilController
    /\ Cardinality(GoodReplicas(vsVol)) > vsVol.NumberOfReplicas

\* ---- the manager: what an operation leaves, on every reachable state
\* the failures an operation started in the current state can meet
AnyFailSets(CallsOf(_)) == FailSetsUpTo(MaxFailures, CallsOf)
\* the state a following operation starts in
Then(s) == [s EXCEPT !.log = <<>>]
Issued(s, calls) == {j \in DOMAIN s.log : s.log[j].call \in calls}
NoCallFails(f) == \A d \in f : d.call = "info"
Local(ct) == ct # NilController /\ ct.Running /\ ct.HostID = CurrentHostID

\* C3: whenever Detach or Delete of a volume returns success (doDetach has
\* returned success), the registry map has no entry under the volume's name
C3_EntryDeleted ==
    \A n \in DOMAIN vols :
        /\ \A f \in AnyFailSets(LAMBDA g : Calls(Detach(St, g, n).s.log)) :
              LET Released(out) == out.err = "" => n \notin DOMAIN out.s.cs
              IN  Released(Detach(St, f, n))
        /\ \A f \in AnyFailSets(LAMBDA g : Calls(Delete(St, g, n, [pick |-> ReplicaIds]).s.log)) :
           \A o \in DeleteOracles(f) :
              LET Released(out) == out.err = "" => n \notin DOMAIN out.s.cs
              IN  Released(Delete(St, f, n, o))

\* the State the four rules give a record
StateByRule(rec) ==
    LET good == Cardinality(GoodReplicas(rec))
    IN  IF good = 0 THEN "faulted"
        ELSE IF rec.Controller = NilController THEN "detached"
        ELSE IF good = rec.NumberOfReplicas THEN "healthy"
        ELSE "degraded"

Derived(v, rec) ==
    /\ v.State = StateByRule(rec)
    /\ v.Replicas = rec.Replicas
    /\ v.Controller = rec.Controller
    /\ v.Endpoint # "" => rec.Controller # NilController /\ rec.Controller.Running

\* C6: a volume that Get or List returns has the State the rules give the
\* record of the orchestrator, whatever State is stored in it, and an Endpoint
\* only if its controller is there and running; Get of a name the
\* orchestrator has no record of returns null and no error
C6_DerivedState ==
    /\ \A n \in Names :
       \A f \in AnyFailSets(LAMBDA g : Calls(Get(St, g, n).s.log)) :
          LET Returned(out) ==
                  /\ out.err = "" /\ n \in DOMAIN vols => Derived(out.vol, vols[n])
                  /\ n \notin DOMAIN vols /\ D("GetVolume", n, ControllerInst) \notin f
                       => out.err = "" /\ out.vol = NilVolume
          IN  Returned(Get(St, f, n))
    /\ \A f \in AnyFailSets(LAMBDA g : Calls(List(St, g).s.log)) :
          LET Listed(out) ==
                  out.err = "" =>
                      /\ DOMAIN out.vols = DOMAIN vols
                      /\ \A n \in DOMAIN vols : Derived(out.vols[n], vols[n])
          IN  Listed(List(St, f))

C6_Witness ==
    \E n \in DOMAIN vols :
        /\ vols[n].State = "created"
        /\ Local(vols[n].Controller)
        /\ Get(St, {}, n).vol.State = "degraded"
        /\ Get(St, {}, n).vol.Endpoint = "dev"
        /\ List(St, {}).vols[n].State = "degraded"

MonitorsMatch(s) ==
    \A n \in DOMAIN s.vols :
        /\ Local(s.vols[n].Controller) => n \in s.monitors
        /\ s.vols[n].Controller = NilController => n \notin s.monitors

\* C7: when Start, Attach, Detach, Delete, Create or CheckController returns
\* success, every volume whose controller runs on the current host has a
\* monitor entry and no volume without a controller has one
C7_MonitorsMatch ==
    /\ \A f \in AnyFailSets(LAMBDA g : Calls(Start(St, g).s.log)) :
          LET Left(out) == out.err = "" => MonitorsMatch(out.s)
          IN  ~started => Left(Start(St, f))
    /\ \A n \in Names :
          /\ \A f \in AnyFailSets(LAMBDA g : Calls(Detach(St, g, n).s.log)) :
                LET Left(out) == out.err = "" => MonitorsMatch(out.s)
                IN  Left(Detach(St, f, n))
          /\ \A f \in AnyFailSets(LAMBDA g :
                        UNION {Calls(Attach(St, g, n, o).s.log) : o \in AttachOracles(g, n)}) :
             \A o \in AttachOracles(f, n) :
                LET Left(out) == out.err = "" => MonitorsMatch(out.s)
                IN  Left(Attach(St, f, n, o))
          /\ \A f \in AnyFailSets(LAMBDA g :
                        UNION {Calls(Delete(St, g, n, o).s.log) : o \in DeleteOracles(g)}) :
             \A o \in DeleteOracles(f) :
                LET Left(out) == out.err = "" => MonitorsMatch(out.s)
                IN  Left(Delete(St, f, n, o))
          /\ n \in monitors /\ n \in DOMAIN vols =>
                \A modes \in [ctl[n] -> Modes] :
                \A f \in AnyFailSets(LAMBDA g :
                            Calls(CheckController(St, g, n, modes, MaxTime).s.log)) :
                   LET Left(out) == out.err = "" /\ ~out.s.blocked => MonitorsMatch(out.s)
                   IN  Left(CheckController(St, f, n, modes, MaxTime))
    /\ \A volume \in CreateArgs, settings \in SettingsArgs, backup \in BackupArgs :
       \A f \in AnyFailSets(LAMBDA g :
                  UNION {Calls(Create(St, g, volume, settings, backup, o).s.log) :
                            o \in CreateOracles(g)}) :
       \A o \in CreateOracles(f) :
          LET Left(out) == out.err = "" /\ ~out.s.blocked => MonitorsMatch(out.s)
          IN  Left(Create(St, f, volume, settings, backup, o))

\* the second of two Attach of volume n in a row, the first having left s1
SecondAttach(s1, n, out) ==
    /\ out.err = ""
    /\ Issued(out.s, {"StopInstance", "StartInstance", "CreateController", "monitor"}) = {}
    /\ out.s.vols = s1.vols
    /\ out.s.insts = s1.insts
    /\ out.s.monitors = s1.monitors
    /\ n \in out.s.monitors

AttachFailSets(s, n) ==
    AnyFailSets(LAMBDA g : UNION {Calls(Attach(s, g, n, o).s.log) :
                                     o \in [addr : Addrs, pick : {{}}]})

\* C8: an Attach that follows an Attach that succeeded, and any Attach that
\* finds the controller of the volume running on the current host, returns
\* success, issues no StopInstance, StartInstance or CreateController, leaves
\* the controller and the instances as they are and the volume with its
\* monitor entry; the second of two in a row does not call the monitor factory
C8_AttachIdempotent ==
    \A n \in Names :
        /\ \A f \in AnyFailSets(LAMBDA g :
                      UNION {Calls(Attach(St, g, n, o).s.log) : o \in AttachOracles(g, n)}) :
           \A o \in AttachOracles(f, n) :
              LET First(a1) ==
                      a1.err = "" =>
                          /\ Local(a1.s.vols[n].Controller)
                          /\ \A f2 \in AttachFailSets(Then(a1.s), n) :
                                D("GetVolume", n, ControllerInst) \notin f2 =>
                                    SecondAttach(a1.s, n, Attach(Then(a1.s), f2, n, o))
              IN  First(Attach(St, f, n, o))
        /\ n \in DOMAIN vols /\ Local(vols[n].Controller) =>
              \A f \in AttachFailSets(St, n) :
                  D("GetVolume", n, ControllerInst) \notin f =>
                      LET Again(out) ==
                              /\ out.err = ""
                              /\ Issued(out.s, {"StopInstance", "StartInstance",
                                                "CreateController"}) = {}
                              /\ out.s.vols = vols
                              /\ out.s.insts = insts
                              /\ out.s.monitors = monitors \cup {n}
                      IN  Again(Attach(St, f, n, [addr |-> "a1", pick |-> {}]))

\* a detached volume is attached with all its calls, and attached once more
C8_Witness ==
    \E n \in DOMAIN vols :
        /\ vols[n].Controller = NilController
        /\ n \notin monitors
        /\ Cardinality(DOMAIN vols[n].Replicas) = MaxN
        /\ \E o \in AttachOracles({}, n) :
              /\ Attach(St, {}, n, o).err = ""
              /\ Issued(Attach(St, {}, n, o).s, {"CreateController"}) # {}
              /\ Issued(Attach(St, {}, n, o).s, {"monitor"}) # {}
              /\ Attach(Then(Attach(St, {}, n, o).s), {}, n, o).err = ""

FullyDetached(s, n) ==
    /\ s.vols[n].Controller = NilController
    /\ <<n, ControllerInst>> \notin s.insts
    /\ RunningReplicas(s.vols[n]) = {}
    /\ n \notin s.monitors

DetachFailSets(s, n) == AnyFailSets(LAMBDA g : Calls(Detach(s, g, n).s.log))

DetachTwice(n, Allowed(_)) ==
    \A f1 \in {f \in DetachFailSets(St, n) : Allowed(f)} :
        LET First(d1) ==
                /\ d1.err = ""
                /\ FullyDetached(d1.s, n)
                /\ \A f2 \in {f \in DetachFailSets(Then(d1.s), n) : Allowed(f)} :
                      LET Second(d2) ==
                              /\ d2.err = ""
                              /\ FullyDetached(d2.s, n)
                              /\ d2.s.vols = d1.s.vols
                              /\ d2.s.insts = d1.s.insts
                      IN  Second(Detach(Then(d1.s), f2, n))
        IN  First(Detach(St, f1, n))

\* C9 as stated: for an existing volume and an orchestrator whose StopInstance
\* never fails, Detach and Detach again return success both times, and the
\* volume has no controller, no running replica and no monitor entry
C9_AsStated ==
    \A n \in DOMAIN vols :
        DetachTwice(n, LAMBDA f : \A d \in f : d.call # "StopInstance")

\* C9: for an existing volume and an orchestrator none of whose calls fails
\* (GetVolume and RemoveInstance as well as StopInstance), Detach and Detach
\* again return success both times, and after the second the volume has no
\* controller, no running replica and no monitor entry, as after the first
C9_DetachIdempotent ==
    \A n \in DOMAIN vols :
        DetachTwice(n, NoCallFails)

\* an attached volume with its monitor is detached, and detached once more
C9_Witness ==
    \E n \in DOMAIN vols :
        /\ Local(vols[n].Controller)
        /\ n \in monitors
        /\ RunningReplicas(vols[n]) # {}
        /\ Detach(St, {}, n).err = ""
        /\ Issued(Detach(St, {}, n).s, {"StopInstance"}) # {}
        /\ Detach(Then(Detach(St, {}, n).s), {}, n).err = ""

\* C10: when Delete of an existing volume returns success, a Get of the name
\* returns null, RemoveInstance was issued for every replica of the volume and
\* no replica instance of it remains, its controller instance is removed, and
\* the name has no monitor entry
C10_DeleteRemovesAll ==
    \A n \in DOMAIN vols :
    \A f \in AnyFailSets(LAMBDA g :
                UNION {Calls(Delete(St, g, n, o).s.log) : o \in DeleteOracles(g)}) :
    \A o \in DeleteOracles(f) :
        LET Deleted(out) ==
                out.err = "" =>
                    /\ Get(Then(out.s), {}, n).err = ""
                    /\ Get(Then(out.s), {}, n).vol = NilVolume
                    /\ \A i \in DOMAIN vols[n].Replicas :
                          \E j \in DOMAIN out.s.log :
                              /\ out.s.log[j].call = "RemoveInstance"
                              /\ out.s.log[j].vol = n
                              /\ out.s.log[j].inst = i
                              /\ out.s.log[j].ok
                    /\ \A i \in ReplicaIds \cup {ControllerInst} : <<n, i>> \notin out.s.insts
                    /\ n \notin out.s.monitors
        IN  Deleted(Delete(St, f, n, o))

\* an attached volume with all its replicas and its monitor is deleted
C10_Witness ==
    \E n \in DOMAIN vols :
        /\ Local(vols[n].Controller)
        /\ n \in monitors
        /\ Cardinality(DOMAIN vols[n].Replicas) >= MaxN
        /\ Delete(St, {}, n, [pick |-> ReplicaIds]).err = ""
        /\ n \notin DOMAIN Delete(St, {}, n, [pick |-> ReplicaIds]).s.vols

\* what an operation on a name without a volume does: GetVolume and nothing
\* else, and success if GetVolume answered
Silent(out, f, n) ==
    /\ out.err = "" <=> D("GetVolume", n, ControllerInst) \notin f
    /\ \A j \in DOMAIN out.s.log : out.s.log[j].call = "GetVolume"
    /\ out.s.monitors = monitors
    /\ out.s.vols = vols
    /\ out.s.insts = insts

\* C11: Delete, Detach and Cleanup of a name the orchestrator has no volume of
\* return success once GetVolume has answered, issue no StopInstance,
\* RemoveInstance or DeleteVolume, and leave the monitor registry as it is
C11_MissingVolume ==
    \A n \in Names \ DOMAIN vols :
    \A f \in SUBSET {D("GetVolume", n, ControllerInst)} :
        /\ Silent(Detach(St, f, n), f, n)
        /\ \A o \in DeleteOracles(f) : Silent(Delete(St, f, n, o), f, n)
        /\ \A now \in Nows : Silent(Cleanup(St, f, n, now), f, n)

\* a volume is there with its monitor, and the three are called on another name
C11_Witness ==
    \E n \in Names \ DOMAIN vols :
        /\ monitors # {}
        /\ insts # {}
        /\ Detach(St, {}, n).err = ""
        /\ Delete(St, {}, n, [pick |-> ReplicaIds]).err = ""
        /\ Cleanup(St, {}, n, MaxTime).err = ""

\* the calls of a run on instance i of volume n, made whether they succeeded
\* or not
Attempted(s, call, n, i) ==
    \E j \in DOMAIN s.log :
        /\ s.log[j].call = call /\ s.log[j].vol = n /\ s.log[j].inst = i
Failed(s, call, n, i) ==
    \E j \in DOMAIN s.log :
        /\ s.log[j].call = call /\ s.log[j].vol = n /\ s.log[j].inst = i
        /\ ~s.log[j].ok
ReadStates(s) == s.log # <<>> /\ s.log[1].call = "ls" /\ s.log[1].ok
ErrReplicas(modes) == {i \in DOMAIN modes : modes[i] = "ERR"}

\* C12: when CheckController returns having read the replica states, it has
\* attempted RemoveReplica on the controller and MarkBadReplica on the
\* orchestrator for every replica reported ERR, whichever of these calls
\* failed, and it returns an error if one of them failed
C12_ErrReplicasDropped ==
    \A n \in monitors \cap DOMAIN vols :
    \A modes \in [ctl[n] -> Modes] :
    \A f \in AnyFailSets(LAMBDA g : Calls(CheckController(St, g, n, modes, MaxTime).s.log)) :
        LET Checked(out) ==
                ReadStates(out.s) =>
                    \A i \in ErrReplicas(modes) :
                        /\ Attempted(out.s, "rm", n, i)
                        /\ Attempted(out.s, "MarkBadReplica", n, i)
                        /\ Failed(out.s, "rm", n, i) \/ Failed(out.s, "MarkBadReplica", n, i)
                              => out.err # ""
        IN  Checked(CheckController(St, f, n, modes, MaxTime))

\* two replicas are reported ERR and RemoveReplica of the first fails
C12_Witness ==
    \E n \in monitors \cap DOMAIN vols :
    \E i \in ctl[n], k \in ctl[n] :
        /\ i < k
        /\ ControllerAlive(St, n)
        /\ LET modes == [x \in ctl[n] |-> "ERR"]
               out == CheckController(St, {D("rm", n, i)}, n, modes, MaxTime)
           IN  /\ out.err # ""
               /\ Failed(out.s, "rm", n, i)
               /\ out.s.vols[n].Replicas[i].BadTimestamp = MaxTime
               /\ out.s.vols[n].Replicas[k].BadTimestamp = MaxTime
               /\ k \notin out.s.ctl[n]

\* C13: the count of the replicas being added to a volume is never negative,
\* however the health checks and the repair tasks interleave
C13_AddingNotNegative ==
    \A n \in Names : addingReplicas[n] >= 0

\* two repair tasks of one volume are both past their increment
C13_Witness ==
    \E n \in Names :
        /\ addingReplicas[n] = MaxRepairs
        /\ \A t \in repairs : t.vol = n /\ t.pc = "add"

\* C14: a volume has at most one repair task at a time: no CheckController
\* starts a createAndAddReplicaToController while the task of an earlier one
\* has not returned from its AddReplica, so no two AddReplica calls of one
\* volume are in flight
C14_NoDuplicateRepair ==
    \A n \in Names : Cardinality({t \in repairs : t.vol = n}) <= 1

\* C15: a CheckController that has read the replica states, met no failure
\* in dropping the ERR replicas and was told of no RW replica calls Detach
\* (which starts with its Get) and creates no replica; when it returns success
\* the volume is detached.  When every good replica of the record was reported
\* ERR, as when the only replica of a volume of one replica was, they are all
\* marked bad and a Get that follows reports faulted
C15_NoGoodDetaches ==
    \A n \in monitors \cap DOMAIN vols :
    \A modes \in {m \in [ctl[n] -> Modes] : \A i \in ctl[n] : m[i] # "RW"} :
    \A f \in AnyFailSets(LAMBDA g : Calls(CheckController(St, g, n, modes, MaxTime).s.log)) :
        LET Checked(out) ==
                /\ ReadStates(out.s)
                /\ \A i \in ErrReplicas(modes) :
                       ~Failed(out.s, "rm", n, i) /\ ~Failed(out.s, "MarkBadReplica", n, i)
                => /\ Attempted(out.s, "GetVolume", n, ControllerInst)
                   /\ Issued(out.s, {"CreateReplica", "StartInstance", "add"}) = {}
                   /\ out.s.repairs = repairs
                   /\ out.err = "" => FullyDetached(out.s, n)
                   /\ GoodReplicas(vols[n]) \subseteq ErrReplicas(modes) =>
                         /\ \A i \in ErrReplicas(modes) \cap DOMAIN vols[n].Replicas :
                                out.s.vols[n].Replicas[i].BadTimestamp # NoTimestamp
                         /\ Get(Then(out.s), {}, n).vol.State = "faulted"
        IN  Checked(CheckController(St, f, n, modes, MaxTime))

\* the only replica of a healthy volume of one replica is reported ERR
C15_Witness ==
    \E n \in monitors \cap DOMAIN vols :
    \E i \in ReplicaIds :
        /\ vols[n].NumberOfReplicas = 1
        /\ DOMAIN vols[n].Replicas = {i}
        /\ ctl[n] = {i}
        /\ Get(St, {}, n).vol.State = "healthy"
        /\ LET out == CheckController(St, {}, n, [x \in {i} |-> "ERR"], MaxTime)
           IN  /\ out.err = ""
               /\ FullyDetached(out.s, n)
               /\ Get(Then(out.s), {}, n).vol.State = "faulted"

\* C16: Attach of a detached volume all of whose replicas are marked bad,
\* with every call succeeding, returns success and creates the controller
\* with one replica, the one marked last, whatever the order of the loop over
\* the replicas
C16_AttachRecentBad ==
    \A n \in DOMAIN vols :
        /\ vols[n].Controller = NilController
        /\ DOMAIN vols[n].Replicas # {}
        /\ BadReplicas(vols[n]) = DOMAIN vols[n].Replicas
        => \A o \in AttachOracles({}, n) :
              LET Attached(out) ==
                      /\ out.err = ""
                      /\ \E i \in DOMAIN vols[n].Replicas :
                            /\ out.s.ctl[n] = {i}
                            /\ \A k \in DOMAIN vols[n].Replicas :
                                  vols[n].Replicas[k].BadTimestamp
                                      <= vols[n].Replicas[i].BadTimestamp
              IN  Attached(Attach(St, {}, n, o))

\* a volume of N replicas, all of them good and running, attached on the
\* current host to exactly these replicas, monitored and reported healthy
AttachedHealthy(s, n, N) ==
    /\ n \in DOMAIN s.vols
    /\ Cardinality(DOMAIN s.vols[n].Replicas) = N
    /\ \A i \in DOMAIN s.vols[n].Replicas :
          /\ s.vols[n].Replicas[i].Running
          /\ s.vols[n].Replicas[i].BadTimestamp = NoTimestamp
          /\ <<n, i>> \in s.insts
    /\ Local(s.vols[n].Controller)
    /\ <<n, ControllerInst>> \in s.insts
    /\ s.ctl[n] = DOMAIN s.vols[n].Replicas
    /\ n \in s.monitors
    /\ Get(Then(s), {}, n).vol.State = "healthy"
    /\ Get(Then(s), {}, n).vol.Endpoint # ""

\* C17: with no volume of the name, Create with NumberOfReplicas = N, no
\* FromBackup and an engine image, followed by Attach, every call succeeding,
\* both return success, CreateReplica is called N times, CreateController
\* once, and the volume has N running replicas, a controller on the current
\* host connected to them, a monitor entry, and is reported healthy
C17_CreateAttachHealthy ==
    \A volume \in {v \in CreateArgs : v.FromBackup = "" /\ v.Name \notin DOMAIN vols} :
    \A settings \in {x \in SettingsArgs \ {NilSettings} :
                        volume.EngineImage # "" \/ x.EngineImage # ""} :
    \A o \in CreateOracles({}) :
        LET Attached(cr, at) ==
                /\ at.err = ""
                /\ Cardinality(Issued(cr.s, {"CreateReplica"})) = volume.NumberOfReplicas
                /\ Cardinality(Issued(at.s, {"CreateController"})) = 1
                /\ AttachedHealthy(at.s, volume.Name, volume.NumberOfReplicas)
            Created(cr) ==
                ~cr.s.blocked =>
                    /\ cr.err = ""
                    /\ Attached(cr, Attach(Then(cr.s), {}, volume.Name, o))
        IN  Created(Create(St, {}, volume, settings, [sizeParses |-> TRUE], o))

\* a volume of MaxN replicas has been created and attached without a fault
C17_Witness ==
    \E n \in DOMAIN vols :
        /\ faults = 0
        /\ vols[n].NumberOfReplicas = MaxN
        /\ AttachedHealthy(St, n, MaxN)

\* the calls of createFromBackup after the size is parsed
BackupSteps ==
    {"CreateVolume", "CreateReplica", "StartInstance", "CreateController", "Restore",
     "StopInstance", "RemoveInstance"}

\* C18: a create-from-backup in which a call fails after the size is parsed
\* (in creating the volume and its replicas, attaching, restoring or
\* detaching) returns an error, and after it Get of the name returns null and
\* no replica instance of the volume remains
C18_BackupRollback ==
    \A volume \in {v \in CreateArgs : v.FromBackup # "" /\ v.Name \notin DOMAIN vols} :
    \A settings \in {x \in SettingsArgs \ {NilSettings} :
                        /\ x.BackupTarget # ""
                        /\ volume.EngineImage # "" \/ x.EngineImage # ""} :
    \A f \in AnyFailSets(LAMBDA g :
               UNION {Calls(Create(St, g, volume, settings, [sizeParses |-> TRUE], o).s.log) :
                         o \in CreateOracles(g)}) :
    \A o \in CreateOracles(f) :
        LET RolledBack(out) ==
                /\ f # {}
                /\ \A d \in f : d.call \in BackupSteps
                => /\ out.err # ""
                   /\ Get(Then(out.s), {}, volume.Name).vol = NilVolume
                   /\ \A i \in ReplicaIds : <<volume.Name, i>> \notin out.s.insts
        IN  RolledBack(Create(St, f, volume, settings, [sizeParses |-> TRUE], o))

\* the instances of volume n a run has called `call` on, and how many calls
\* of it the run has made
CalledOn(s, call, n) ==
    {i \in ReplicaIds \cup {ControllerInst} : Attempted(s, call, n, i)}

OneReplicaFailed(n) ==
    /\ n \in DOMAIN vols
    /\ n \in monitors
    /\ vols[n].NumberOfReplicas >= 2
    /\ Local(vols[n].Controller)
    /\ Cardinality(BadReplicas(vols[n])) = 1

RepairedHealthy(n) ==
    /\ n \in DOMAIN vols
    /\ Cardinality(GoodReplicas(vols[n])) = vols[n].NumberOfReplicas
    /\ ctl[n] = GoodReplicas(vols[n])
    /\ \A t \in repairs : t.vol # n
    /\ Get(St, {}, n).vol.State = "healthy"

\* C20: when one replica of an attached volume of N >= 2 replicas has been
\* reported ERR, and every call succeeds and nothing else fails, the health
\* checks that follow lead to a volume with N good replicas, all connected to
\* the controller, no repair in flight, and Get reporting healthy
C20_RepairConverges ==
    \A n \in CreateNames : OneReplicaFailed(n) ~> RepairedHealthy(n)


\* the calls of the repair task t after its increment
TaskCalls(t) ==
    {D("add", t.vol, t.inst), D("StopInstance", t.vol, t.inst),
     D("RemoveInstance", t.vol, t.inst)}

\* the count of a volume is the number of its repair tasks between their
\* increment and their decrement, and a task that runs to its end takes the
\* count down by one whichever of its calls fail
IncrementsMatched ==
    /\ \A n \in Names :
          addingReplicas[n] = Cardinality({t \in repairs : t.vol = n /\ t.pc = "add"})
    /\ \A t \in {x \in repairs : x.pc = "add"} :
       \A f \in SUBSET TaskCalls(t) :
          LET Ended(s9) ==
                  /\ s9.addingReplicas[t.vol] = addingReplicas[t.vol] - 1
                  /\ t \notin s9.repairs
          IN  Ended(AddReplicaTask(St, f, t))

\* C21: every increment of addingReplicas[name] by a repair task is followed
\* by one decrement when its AddReplica has returned, whether AddReplica and
\* the stop and remove of the orphan succeed or fail: the count is the number
\* of tasks past their increment, it is 0 when no repair is in flight, and a
\* count above 0 leads to a count of 0
C21_IncrementMatched ==
    /\ []IncrementsMatched
    /\ \A n \in Names : (addingReplicas[n] > 0) ~> (addingReplicas[n] = 0)

\* a task is past its increment, its AddReplica fails and so does the stop of
\* the orphan: the count is back to 0
C21_Witness ==
    \E t \in repairs :
        /\ t.pc = "add"
        /\ addingReplicas[t.vol] = 1
        /\ LET out == AddReplicaTask(St, {D("add", t.vol, t.inst),
                                          D("StopInstance", t.vol, t.inst)}, t)
           IN  /\ out.addingReplicas[t.vol] = 0
               /\ Failed(out, "StopInstance", t.vol, t.inst)
               /\ Attempted(out, "RemoveInstance", t.vol, t.inst)


\* the InstanceInfo of an instance on the current host, running or not
OnThisHost(n, i, running) ==
    [nil |-> FALSE, ID |-> <<n, i>>, Name |-> <<n, i>>, HostID |-> CurrentHostID,
     Running |-> running]

\* start, stop, start again, stop and remove of the replica i of volume n
ReplicaLifecycle(s, n, i) ==
    LET Removed(s5) ==
            /\ <<n, i>> \notin s5.insts
            /\ InstanceInfo(s5, n, i) = NilInstance
        StoppedAgain(s4) ==
            /\ InstanceInfo(s4, n, i) = OnThisHost(n, i, FALSE)
            /\ Removed(OrcRemoveInstance(s4, n, i))
        StartedAgain(s3) ==
            /\ InstanceInfo(s3, n, i) = OnThisHost(n, i, TRUE)
            /\ StoppedAgain(OrcStopInstance(s3, n, i))
        Stopped(s2) ==
            /\ InstanceInfo(s2, n, i) = OnThisHost(n, i, FALSE)
            /\ InstanceInfo(OrcStopInstance(s2, n, i), n, i) = OnThisHost(n, i, FALSE)
            /\ StartedAgain(OrcStartInstance(s2, n, i))
        Started(s1) ==
            /\ InstanceInfo(s1, n, i) = OnThisHost(n, i, TRUE)
            /\ Stopped(OrcStopInstance(s1, n, i))
    IN  Started(OrcStartInstance(s, n, i))

\* C22: a replica instance is created not running and on the current host;
\* startInstance makes it Running and stopInstance not Running, each giving
\* the InstanceInfo of the same ID and Name; a stopped instance starts again;
\* a controller instance is created running on the current host; and
\* removeInstance of a stopped instance removes that instance
C22_InstanceLifecycle ==
    \A n \in DOMAIN vols :
        /\ FreeSlots(St, n) # {} =>
              LET Created(s1, i) ==
                      /\ InstanceInfo(s1, n, i) = OnThisHost(n, i, FALSE)
                      /\ ReplicaLifecycle(s1, n, i)
              IN  Created(OrcCreateReplica(St, n, NewReplicaId(St, n)), NewReplicaId(St, n))
        /\ \A i \in DOMAIN vols[n].Replicas :
              <<n, i>> \in insts => ReplicaLifecycle(St, n, i)
        /\ <<n, ControllerInst>> \notin insts =>
              \A addr \in Addrs :
                 LET Created(s1) ==
                         /\ InstanceInfo(s1, n, ControllerInst)
                               = OnThisHost(n, ControllerInst, TRUE)
                         /\ InstanceInfo(OrcStopInstance(s1, n, ControllerInst),
                                         n, ControllerInst)
                               = OnThisHost(n, ControllerInst, FALSE)
                         /\ <<n, ControllerInst>> \notin
                               OrcRemoveInstance(OrcStopInstance(s1, n, ControllerInst),
                                                 n, ControllerInst).insts
                 IN  Created(OrcCreateController(St, n, DOMAIN vols[n].Replicas, addr))

\* as in TestCreateVolume: a volume with one replica running and one stopped,
\* no controller yet and room for a new replica
C22_Witness ==
    \E n \in DOMAIN vols :
    \E i \in DOMAIN vols[n].Replicas, k \in DOMAIN vols[n].Replicas :
        /\ <<n, i>> \in insts /\ <<n, k>> \in insts
        /\ vols[n].Replicas[i].Running
        /\ ~vols[n].Replicas[k].Running
        /\ <<n, ControllerInst>> \notin insts
        /\ FreeSlots(St, n) # {}
        /\ InstanceInfo(OrcStartInstance(St, n, k), n, k) = OnThisHost(n, k, TRUE)
        /\ InstanceInfo(OrcStopInstance(St, n, i), n, i) = OnThisHost(n, i, FALSE)


\* what is done with the manager mutex held: creating and closing a monitor
\* and the send on its cron channel, around the reads and writes of the
\* monitors map (the addingReplicas map is read and written with no call)
UnderMutex == {"monitor", "Close", "cron"}

\* the run that left s made no call of the orchestrator or of the controller
\* with the mutex held, and gave the mutex back
MutexFree(s) ==
    /\ ~s.mu
    /\ \A j \in DOMAIN s.log : s.log[j].locked => s.log[j].call \in UnderMutex

ReplicaCalls(s, call) ==
    {j \in DOMAIN s.log : s.log[j].call = call /\ s.log[j].inst # ControllerInst}

\* the phases of an Attach that left out: every stop of a replica comes before
\* every start, every start before CreateController, and a phase is entered
\* only when no call of the phases before it failed
InPhases(out) ==
    /\ \A j \in ReplicaCalls(out.s, "StopInstance"), k \in ReplicaCalls(out.s, "StartInstance") :
          j < k /\ out.s.log[j].ok
    /\ \A j \in ReplicaCalls(out.s, "StopInstance") \cup ReplicaCalls(out.s, "StartInstance") :
       \A k \in Issued(out.s, {"CreateController"}) :
          j < k /\ out.s.log[j].ok

\* C24: Attach of a volume that is not attached on the current host goes by
\* phases: no StartInstance before every StopInstance has returned without
\* error, CreateController only after every StartInstance has returned without
\* error; and when a stop or a start fails Attach returns an error, creates no
\* controller, leaves volume.Controller unset and opens no monitor entry.
\* The Detach that doAttach makes first is taken to have succeeded, and the
\* calls that fail are those of the two fan-outs and CreateController
C24_AttachPhases ==
    \A n \in DOMAIN vols :
    \A o \in AttachOracles({}, n) :
        LET volume == Get(St, {}, n).vol
            Attached(out) ==
                /\ InPhases(out)
                /\ (\E j \in ReplicaCalls(out.s, "StopInstance")
                             \cup ReplicaCalls(out.s, "StartInstance") : ~out.s.log[j].ok) =>
                      /\ out.err = "error"
                      /\ Issued(out.s, {"CreateController", "monitor"}) = {}
                      /\ ~Local(out.s.vols[n].Controller)
                      /\ n \notin out.s.monitors
            Detached(dt) ==
                dt.err = "" =>
                    \A f \in AnyFailSets(LAMBDA g :
                               Calls(doAttachLoop(Then(dt.s), g, volume, o).s.log)) :
                        Attached(doAttachLoop(Then(dt.s), f, volume, o))
        IN  ~Local(vols[n].Controller) =>
                Detached(IF vols[n].Controller # NilController
                         THEN Detach(St, {}, n) ELSE Res(St, "", volume))

C26_DetachOrder ==
    \A n \in DOMAIN vols :
    \A f \in AnyFailSets(LAMBDA g : Calls(Detach(St, g, n).s.log)) :
        LET running == vols[n].Controller # NilController /\ vols[n].Controller.Running
            Kept(out) ==
                /\ out.err = "error"
                /\ Issued(out.s, {"RemoveInstance"}) = {}
                /\ out.s.vols[n].Controller # NilController
                /\ <<n, ControllerInst>> \in out.s.insts
            Detached(out) ==
                /\ Failed(out.s, "StopInstance", n, ControllerInst) =>
                      /\ Kept(out)
                      /\ ReplicaCalls(out.s, "StopInstance") = {}
                /\ (\E j \in ReplicaCalls(out.s, "StopInstance") : ~out.s.log[j].ok) =>
                      /\ vols[n].Controller # NilController => Kept(out)
                      /\ out.err = "error"
                      /\ CalledOn(out.s, "StopInstance", n) \ {ControllerInst}
                            = DOMAIN vols[n].Replicas
                /\ \A k \in Issued(out.s, {"RemoveInstance"}) :
                      /\ out.s.log[k].inst = ControllerInst
                      /\ running => Attempted(out.s, "StopInstance", n, ControllerInst)
                      /\ CalledOn(out.s, "StopInstance", n) \ {ControllerInst}
                            = DOMAIN vols[n].Replicas
                      /\ \A j \in Issued(out.s, {"StopInstance"}) : j < k /\ out.s.log[j].ok
                /\ vols[n].Controller # NilController
                   /\ out.s.vols[n].Controller = NilController =>
                      /\ Issued(out.s, {"RemoveInstance"}) # {}
                      /\ \A j \in DOMAIN out.s.log : out.s.log[j].ok \/ out.s.log[j].call = "info"
        IN  D("GetVolume", n, ControllerInst) \notin f => Detached(Detach(St, f, n))

\* an attached volume of two running replicas: a Detach in which the stop of
\* the controller fails stops no replica, one in which the stop of a replica
\* fails stops the controller and the other replica and keeps the controller
C26_Witness ==
    \E n \in DOMAIN vols :
    \E i \in DOMAIN vols[n].Replicas :
        /\ Local(vols[n].Controller)
        /\ Cardinality(RunningReplicas(vols[n])) >= 2
        /\ LET first == Detach(St, {D("StopInstance", n, ControllerInst)}, n)
               later == Detach(St, {D("StopInstance", n, i)}, n)
           IN  /\ first.err = "error"
               /\ ReplicaCalls(first.s, "StopInstance") = {}
               /\ later.err = "error"
               /\ Cardinality(ReplicaCalls(later.s, "StopInstance")) >= 2
               /\ ~later.s.vols[n].Controller.Running
               /\ <<n, ControllerInst>> \in later.s.insts
               /\ Detach(St, {}, n).s.vols[n].Controller = NilController


\* C27: a Detach or Delete that returns an error leaves the monitor registry
\* as it was before the call, so that a volume whose controller still runs on
\* the current host after it still has its monitor entry
C27_FailedDetachKeepsMonitor ==
    \A n \in DOMAIN vols :
        /\ \A f \in AnyFailSets(LAMBDA g : Calls(Detach(St, g, n).s.log)) :
              LET Left(out) ==
                      out.err # "" =>
                          /\ out.s.monitors = monitors
                          /\ n \in monitors /\ Local(out.s.vols[n].Controller)
                                => n \in out.s.monitors
              IN  Left(Detach(St, f, n))
        /\ \A f \in AnyFailSets(LAMBDA g :
                      UNION {Calls(Delete(St, g, n, o).s.log) : o \in DeleteOracles(g)}) :
           \A o \in DeleteOracles(f) :
              LET Left(out) ==
                      out.err # "" =>
                          /\ out.s.monitors = monitors
                          /\ n \in monitors /\ n \in DOMAIN out.s.vols
                             /\ Local(out.s.vols[n].Controller)
                                => n \in out.s.monitors
              IN  Left(Delete(St, f, n, o))


\* the calls of a run in order, each with the instance it was made on
CallSeq(s) == [j \in DOMAIN s.log |-> <<s.log[j].call, s.log[j].inst>>]

\* C28: a repair task whose AddReplica fails calls StopInstance and then
\* RemoveInstance on the replica it was to add, RemoveInstance also when
\* StopInstance failed, and ends like any other (no caller is told: the task
\* is gone and the count is down); a task whose AddReplica succeeds calls
\* neither, and the replica is connected
C28_OrphanCleanedUp ==
    \A t \in {x \in repairs : x.pc = "add"} :
    \A f \in SUBSET TaskCalls(t) :
        LET Ended(s9) ==
                /\ t \notin s9.repairs
                /\ s9.log[1].call = "add" /\ s9.log[1].inst = t.inst
                /\ s9.log[1].ok =>
                      /\ CallSeq(s9) = <<<<"add", t.inst>>>>
                      /\ t.inst \in s9.ctl[t.vol]
                      /\ <<t.vol, t.inst>> \in s9.insts <=> <<t.vol, t.inst>> \in insts
                /\ ~s9.log[1].ok =>
                      /\ CallSeq(s9) = <<<<"add", t.inst>>, <<"StopInstance", t.inst>>,
                                         <<"RemoveInstance", t.inst>>>>
                      /\ s9.log[3].ok => <<t.vol, t.inst>> \notin s9.insts
        IN  Ended(AddReplicaTask(St, f, t))

\* the AddReplica of a task fails and so does the stop of its replica: the
\* replica is removed all the same
C28_Witness ==
    \E t \in repairs :
        /\ t.pc = "add"
        /\ <<t.vol, t.inst>> \in insts
        /\ ControllerAlive(St, t.vol)
        /\ LET out == AddReplicaTask(St, {D("add", t.vol, t.inst),
                                          D("StopInstance", t.vol, t.inst)}, t)
           IN  /\ Failed(out, "add", t.vol, t.inst)
               /\ Failed(out, "StopInstance", t.vol, t.inst)
               /\ Attempted(out, "RemoveInstance", t.vol, t.inst)
               /\ <<t.vol, t.inst>> \notin out.insts
        /\ t.inst \in AddReplicaTask(St, {}, t).ctl[t.vol]


\* C29: CheckController returns a ControllerError exactly when reading the
\* replica states from the controller failed, and then it has made no other
\* call and changed nothing (no RemoveReplica, MarkBadReplica, Detach or
\* repair); when a call of the ERR fan-out, of the forced Detach or of the
\* creation and start of a repair replica fails, it returns an error that is
\* not a ControllerError
C29_ControllerErrorOnlyFromRead ==
    \A n \in monitors \cap DOMAIN vols :
    \A modes \in [ctl[n] -> Modes] :
    \A f \in AnyFailSets(LAMBDA g : Calls(CheckController(St, g, n, modes, MaxTime).s.log)) :
        LET Checked(out) ==
                /\ out.err = "ControllerError" <=> ~ReadStates(out.s)
                /\ out.err = "ControllerError" =>
                      /\ Len(out.s.log) = 1
                      /\ out.s.vols = vols /\ out.s.insts = insts /\ out.s.ctl = ctl
                      /\ out.s.monitors = monitors /\ out.s.repairs = repairs
                      /\ out.s.addingReplicas = addingReplicas
                /\ (\E j \in DOMAIN out.s.log :
                       /\ ~out.s.log[j].ok
                       /\ out.s.log[j].call \in {"rm", "MarkBadReplica", "GetVolume",
                              "StopInstance", "RemoveInstance", "CreateReplica",
                              "StartInstance"})
                      => out.err = "error"
        IN  Checked(CheckController(St, f, n, modes, MaxTime))

\* the controller of a monitored volume reports one replica ERR and one RW:
\* when `ls` fails the check returns a ControllerError and does nothing, when
\* RemoveReplica fails it returns another error, having marked the replica bad
C29_Witness ==
    \E n \in monitors \cap DOMAIN vols :
    \E i \in ctl[n], k \in ctl[n] :
        /\ i # k
        /\ ControllerAlive(St, n)
        /\ LET modes == [x \in ctl[n] |-> IF x = i THEN "ERR" ELSE "RW"]
               unread == CheckController(St, {D("ls", n, ControllerInst)}, n, modes, MaxTime)
               undropped == CheckController(St, {D("rm", n, i)}, n, modes, MaxTime)
           IN  /\ unread.err = "ControllerError"
               /\ unread.s.vols = vols
               /\ undropped.err = "error"
               /\ undropped.s.vols[n].Replicas[i].BadTimestamp = MaxTime
               /\ CheckController(St, {}, n, modes, MaxTime).err = ""


\* the record of volume n with the BadTimestamp of the replicas U made one
\* that does not parse
Unparsed(s, n, U) ==
    [s EXCEPT !.vols[n].Replicas =
        [k \in DOMAIN @ |-> IF k \in U THEN [@[k] EXCEPT !.BadTimestamp = Unparsable]
                            ELSE @[k]]]

\* C30: in Cleanup a failure on one bad replica (its StopInstance or
\* RemoveInstance failing, its BadTimestamp not parsing) keeps no stop and no
\* remove of another bad replica from being attempted; Cleanup returns an
\* error exactly when there was such a failure; and a replica whose
\* BadTimestamp does not parse is not removed
C30_CleanupFailuresApart ==
    \A n \in DOMAIN vols :
    \A U \in SUBSET BadReplicas(vols[n]) :
    \A now \in Nows :
    \A f \in AnyFailSets(LAMBDA g : Calls(Cleanup(Unparsed(St, n, U), g, n, now).s.log)) :
        LET bad == BadReplicas(vols[n])
            Cleaned(out) ==
                /\ CalledOn(out.s, "StopInstance", n) = bad \cap RunningReplicas(vols[n])
                /\ CalledOn(out.s, "RemoveInstance", n) =
                      {k \in bad \ U :
                          vols[n].Replicas[k].BadTimestamp + KeepBadReplicasPeriod < now}
                /\ out.err = "error" <=>
                      \/ U # {}
                      \/ \E j \in DOMAIN out.s.log :
                            ~out.s.log[j].ok /\ out.s.log[j].call # "info"
                /\ \A k \in U :
                      /\ k \in DOMAIN out.s.vols[n].Replicas
                      /\ <<n, k>> \in insts => <<n, k>> \in out.s.insts
        IN  D("GetVolume", n, ControllerInst) \notin f =>
                Cleaned(Cleanup(Unparsed(St, n, U), f, n, now))

\* two bad replicas run, both marked long ago; the mark of one does not parse
\* and the stop of the other fails: both are stopped, the other is removed,
\* the one is kept and Cleanup returns an error
C30_Witness ==
    \E n \in DOMAIN vols :
    \E i \in BadReplicas(vols[n]), k \in BadReplicas(vols[n]) :
        /\ i # k
        /\ {i, k} \subseteq RunningReplicas(vols[n])
        /\ <<n, i>> \in insts /\ <<n, k>> \in insts
        /\ LET out == Cleanup(Unparsed(St, n, {i}), {D("StopInstance", n, k)}, n,
                              MaxTime + KeepBadReplicasPeriod + 1)
           IN  /\ out.err = "error"
               /\ CalledOn(out.s, "StopInstance", n) = {i, k}
               /\ CalledOn(out.s, "RemoveInstance", n) = {k}
               /\ <<n, i>> \in out.s.insts
               /\ <<n, k>> \notin out.s.insts



\* C31: ReplicaRemove returns an error and calls neither StopInstance nor
\* RemoveInstance when the replica cannot be located, the volume that does not
\* exist included; when the replica is found it calls StopInstance exactly
\* when the replica runs, always calls RemoveInstance, also after a failed
\* stop, and returns an error exactly when RemoveInstance failed
C31_ReplicaRemove ==
    \A n \in Names : \A i \in ReplicaIds :
    \A f \in AnyFailSets(LAMBDA g : Calls(ReplicaRemove(St, g, n, i).s.log)) :
        LET located == n \in DOMAIN vols /\ i \in DOMAIN vols[n].Replicas
            Settled(out) ==
                IF Failed(out.s, "GetVolume", n, ControllerInst) \/ ~located
                THEN /\ out.err = "error"
                     /\ Issued(out.s, {"StopInstance", "RemoveInstance"}) = {}
                     /\ out.s.vols = vols /\ out.s.insts = insts
                ELSE /\ Attempted(out.s, "StopInstance", n, i)
                            <=> vols[n].Replicas[i].Running
                     /\ Attempted(out.s, "RemoveInstance", n, i)
                     /\ out.err \in {"", "error"}
                     /\ out.err = "error" <=> Failed(out.s, "RemoveInstance", n, i)
                     /\ out.err = "" => i \notin DOMAIN out.s.vols[n].Replicas
            IN  Settled(ReplicaRemove(St, f, n, i))


\* where the fields of a line begin, where the field begun at j ends, and
\* the field itself
FieldStarts(line) ==
    {j \in DOMAIN line : line[j] \notin Whitespace /\ (j = 1 \/ line[j - 1] \in Whitespace)}
FieldEnd(line, j) ==
    CHOOSE k \in j..Len(line) :
        /\ \A x \in j..k : line[x] \notin Whitespace
        /\ k = Len(line) \/ line[k + 1] \in Whitespace
FieldAt(line, j) == SubSeq(line, j, FieldEnd(line, j))

\* C32: of a line with two fields or more parseReplica returns the first
\* field as the Address and the mode of the second, RW, WO or ERR for the
\* tokens "RW", "WO" and "ERR" and ERR for any other, whatever white space
\* and further fields surround them, so that the formatted replica parses to
\* the same replica; a line with fewer fields gives an error and no replica
C32_ParseReplica ==
    prOut # NoParse =>
        LET starts == FieldStarts(prLine)
            first == CHOOSE j \in starts : \A k \in starts : j <= k
            second == CHOOSE j \in starts \ {first} : \A k \in starts \ {first} : j <= k
            token == FieldAt(prLine, second)
        IN  IF Cardinality(starts) < 2
            THEN prOut.err /\ prOut.replica = NilReplica
            ELSE /\ ~prOut.err
                 /\ prOut.replica.Address = FieldAt(prLine, first)
                 /\ prOut.replica.Mode =
                        CASE token = <<"R", "W">> -> "RW"
                          [] token = <<"W", "O">> -> "WO"
                          [] token = <<"E", "R", "R">> -> "ERR"
                          [] OTHER -> "ERR"
                 /\ \A pad \in 1..MaxPad :
                        parseReplica(FormatReplica(prOut.replica, pad)) = prOut

\* a line with blanks before the address and after the mode, parsed
C32_Witness ==
    /\ prOut # NoParse
    /\ ~prOut.err
    /\ prOut.replica.Mode = "WO"
    /\ Head(prLine) \in Whitespace
    /\ prLine[Len(prLine)] \in Whitespace
    /\ Cardinality(FieldStarts(prLine)) = 2


\* the tasks of the fan-out that have not finished, the ones whose call (or
\* parse) failed
Unfinished == {t \in DOMAIN tasks : tasks[t].pc \notin {"", "done"}}
FailedTasks == {t \in DOMAIN tasks : tasks[t].failed}
FanSafe ==
    /\ errChClosed <= 1
    /\ errChClosed > 0 => Unfinished = {}
    /\ \A t \in DOMAIN tasks : tasks[t].pc \in {"exit", "done"} /\ tasks[t].val = "err" => t \in errs
    /\ mainPc = "returned" => errs = FailedTasks
FanEnded == mainPc = "returned" /\ Unfinished = {} /\ errChClosed = 1

\* C33: every fan-out of the manager ends, whatever the replicas and the
\* calls that fail: errCh is closed once and only when no task is left that
\* can send on it, no task stays blocked in its send, and the errors
\* returned are those of the calls that failed
C33_FanOutTerminates == []FanSafe /\ <>FanEnded


\* a call of UpdateRecurring is under way; the monitor is inside CheckController
UrRunning == urPc # ""
MoChecking == moPc \notin {"select", "closed"}

\* C34: UpdateRecurring beside the monitor of the volume never deadlocks: a
\* call under way returns and a CheckController under way returns, under
\* every interleaving; and a CronUpdate is sent only for valid jobs and to a
\* monitor that has its entry
C34_UpdateRecurringCompletes ==
    /\ [](urPc = "cronCh" => urValid /\ CronVolume \in monitors)
    /\ UrRunning ~> ~UrRunning
    /\ MoChecking ~> ~MoChecking


\* C35: the resource of a volume that Get returns offers `attach` exactly in
\* State detached and `detach` exactly in State healthy or degraded, and no
\* action in State faulted; so a volume with a controller is offered
\* `detach`, and one with no controller and a good replica `attach`
C35_ActionsOffered ==
    \A n \in DOMAIN vols :
        LET Offered(v, actions) ==
                /\ "attach" \in actions <=> v.State = "detached"
                /\ "detach" \in actions <=> v.State \in {"healthy", "degraded"}
                /\ v.State = "faulted" => actions = {}
                /\ v.Controller # NilController => "detach" \in actions
                /\ v.Controller = NilController /\ GoodReplicas(v) # {}
                      => "attach" \in actions
            Resource(v) == Offered(v, toVolumeResourceActions(v.State))
        IN  Resource(Get(St, {}, n).vol)

====
